---- MODULE Spec2Model ----
(***************************************************************************)
(* kube-oidc-gateway: the TTL cache, the upstream fetch, the JSON          *)
(* formatter and the HTTP handlers that tie them together.                 *)
(*                                                                         *)
(* Bytes are sequences of one-character strings.  Time is the monotonic    *)
(* clock reading of time.Now(), counted in whole TTL units (seconds).      *)
(***************************************************************************)
EXTENDS Integers, Sequences, FiniteSets, TLC

(***************************************************************************)
(* Bytes                                                                   *)
(***************************************************************************)
\* The characters the modelled documents are made of, in ASCII order.
Alphabet ==
  << "\n", " ", "\"", ",", "0", "1", "2", ":", "[", "]",
     "a", "b", "e", "f", "k", "l", "n", "o", "r", "s", "t", "u", "x", "y",
     "{", "}" >>

Ord(c) == CHOOSE i \in 1..Len(Alphabet) : Alphabet[i] = c

Whitespace == {" ", "\n"}

DigitChars == <<"0", "1", "2", "3", "4", "5", "6", "7", "8", "9">>

IsDigit(c) == \E i \in 1..10 : DigitChars[i] = c

DigitVal(c) == (CHOOSE i \in 1..10 : DigitChars[i] = c) - 1

\* bytes.Compare on two strings (map keys are sorted bytewise by Marshal)
RECURSIVE BytesLess(_, _)
BytesLess(a, b) ==
  IF b = <<>> THEN FALSE
  ELSE IF a = <<>> THEN TRUE
  ELSE IF Head(a) = Head(b) THEN BytesLess(Tail(a), Tail(b))
  ELSE Ord(Head(a)) < Ord(Head(b))

(***************************************************************************)
(* encoding/json as the handlers use it: json.Unmarshal into interface{}   *)
(* and json.MarshalIndent(v, "", "  ").  The grammar covered: objects,     *)
(* arrays, strings without escapes, non-negative integers, true, false,    *)
(* null, and insignificant whitespace.                                     *)
(* Values: <<"obj", pairs sorted by key>>, <<"arr", items>>,               *)
(* <<"str", chars>>, <<"num", n>>, <<"lit", chars>>.                       *)
(***************************************************************************)
ParseFail == [ok |-> FALSE, val |-> <<>>, rest |-> <<>>]

ParseOk(v, r) == [ok |-> TRUE, val |-> v, rest |-> r]

RECURSIVE SkipWS(_)
SkipWS(s) ==
  IF s # <<>> /\ Head(s) \in Whitespace THEN SkipWS(Tail(s)) ELSE s

HasPrefix(s, p) == Len(s) >= Len(p) /\ SubSeq(s, 1, Len(p)) = p

\* the characters after an opening quote, up to the closing quote
RECURSIVE ParseString(_, _)
ParseString(s, acc) ==
  IF s = <<>> THEN ParseFail
  ELSE IF Head(s) = "\"" THEN ParseOk(acc, Tail(s))
  ELSE IF Head(s) \in {"\n", "\\"} THEN ParseFail
  ELSE ParseString(Tail(s), Append(acc, Head(s)))

RECURSIVE ParseDigits(_, _)
ParseDigits(s, n) ==
  IF s # <<>> /\ IsDigit(Head(s))
  THEN ParseDigits(Tail(s), 10 * n + DigitVal(Head(s)))
  ELSE ParseOk(<<"num", n>>, s)

\* a leading zero ends the number: "01" leaves "1" behind, a syntax error
ParseNumber(s) ==
  IF Head(s) = "0" THEN ParseOk(<<"num", 0>>, Tail(s))
  ELSE ParseDigits(s, 0)

\* variant of MapPut: the pairs are kept in the reverse of the order the
\* keys are read in, and Marshal writes them in that order
MapPutPrepends(pairs, k, v) == << <<k, v>> >> \o pairs

\* map[string]interface{} assignment: a repeated key replaces the value;
\* the pairs are kept in the key order Marshal writes them in
RECURSIVE MapPut(_, _, _)
MapPut(pairs, k, v) ==
  IF pairs = <<>> THEN << <<k, v>> >>
  ELSE IF Head(pairs)[1] = k THEN << <<k, v>> >> \o Tail(pairs)
  ELSE IF BytesLess(k, Head(pairs)[1]) THEN << <<k, v>> >> \o pairs
  ELSE <<Head(pairs)>> \o MapPut(Tail(pairs), k, v)

RECURSIVE ParseValue(_)
RECURSIVE ParseElems(_, _)
RECURSIVE ParseMembers(_, _)

ParseElems(s, acc) ==
  LET e == ParseValue(s) IN
  IF ~e.ok THEN ParseFail
  ELSE LET r == SkipWS(e.rest) IN
       IF r = <<>> THEN ParseFail
       ELSE IF Head(r) = "," THEN ParseElems(Tail(r), Append(acc, e.val))
       ELSE IF Head(r) = "]" THEN ParseOk(<<"arr", Append(acc, e.val)>>, Tail(r))
       ELSE ParseFail

ParseMembers(s, acc) ==
  LET s1 == SkipWS(s) IN
  IF s1 = <<>> \/ Head(s1) # "\"" THEN ParseFail
  ELSE LET k == ParseString(Tail(s1), <<>>) IN
       IF ~k.ok THEN ParseFail
       ELSE LET s2 == SkipWS(k.rest) IN
            IF s2 = <<>> \/ Head(s2) # ":" THEN ParseFail
            ELSE LET v == ParseValue(Tail(s2)) IN
                 IF ~v.ok THEN ParseFail
                 ELSE LET r == SkipWS(v.rest)
                          m == MapPut(acc, k.val, v.val) IN
                      IF r = <<>> THEN ParseFail
                      ELSE IF Head(r) = "," THEN ParseMembers(Tail(r), m)
                      ELSE IF Head(r) = "}" THEN ParseOk(<<"obj", m>>, Tail(r))
                      ELSE ParseFail

ParseValue(s) ==
  LET t == SkipWS(s) IN
  IF t = <<>> THEN ParseFail
  ELSE IF Head(t) = "{" THEN
         LET u == SkipWS(Tail(t)) IN
         IF u # <<>> /\ Head(u) = "}" THEN ParseOk(<<"obj", <<>>>>, Tail(u))
         ELSE ParseMembers(u, <<>>)
  ELSE IF Head(t) = "[" THEN
         LET u == SkipWS(Tail(t)) IN
         IF u # <<>> /\ Head(u) = "]" THEN ParseOk(<<"arr", <<>>>>, Tail(u))
         ELSE ParseElems(u, <<>>)
  ELSE IF Head(t) = "\"" THEN
         LET k == ParseString(Tail(t), <<>>) IN
         IF k.ok THEN ParseOk(<<"str", k.val>>, k.rest) ELSE ParseFail
  ELSE IF IsDigit(Head(t)) THEN ParseNumber(t)
  ELSE IF HasPrefix(t, <<"t", "r", "u", "e">>)
         THEN ParseOk(<<"lit", <<"t", "r", "u", "e">>>>, SubSeq(t, 5, Len(t)))
  ELSE IF HasPrefix(t, <<"n", "u", "l", "l">>)
         THEN ParseOk(<<"lit", <<"n", "u", "l", "l">>>>, SubSeq(t, 5, Len(t)))
  ELSE IF HasPrefix(t, <<"f", "a", "l", "s", "e">>)
         THEN ParseOk(<<"lit", <<"f", "a", "l", "s", "e">>>>, SubSeq(t, 6, Len(t)))
  ELSE ParseFail

\* json.Unmarshal(body, &jsonData): one value, then only whitespace
Unmarshal(body) ==
  LET p == ParseValue(body) IN
  IF p.ok /\ SkipWS(p.rest) = <<>> THEN [ok |-> TRUE, val |-> p.val]
  ELSE [ok |-> FALSE, val |-> <<>>]

RECURSIVE Indent(_)
Indent(depth) == IF depth = 0 THEN <<>> ELSE <<" ", " ">> \o Indent(depth - 1)

RECURSIVE NumDigits(_)
NumDigits(n) ==
  IF n < 10 THEN <<DigitChars[n + 1]>>
  ELSE NumDigits(n \div 10) \o <<DigitChars[(n % 10) + 1]>>

RECURSIVE Encode(_, _)
RECURSIVE EncodeItems(_, _)
RECURSIVE EncodePairs(_, _)

EncodeItems(items, depth) ==
  <<"\n">> \o Indent(depth) \o Encode(Head(items), depth)
    \o (IF Len(items) = 1 THEN <<>>
        ELSE <<",">> \o EncodeItems(Tail(items), depth))

EncodePairs(pairs, depth) ==
  <<"\n">> \o Indent(depth) \o <<"\"">> \o Head(pairs)[1] \o <<"\"", ":", " ">>
    \o Encode(Head(pairs)[2], depth)
    \o (IF Len(pairs) = 1 THEN <<>>
        ELSE <<",">> \o EncodePairs(Tail(pairs), depth))

Encode(v, depth) ==
  IF v[1] = "str" THEN <<"\"">> \o v[2] \o <<"\"">>
  ELSE IF v[1] = "num" THEN NumDigits(v[2])
  ELSE IF v[1] = "lit" THEN v[2]
  ELSE IF v[1] = "arr" THEN
         IF v[2] = <<>> THEN <<"[", "]">>
         ELSE <<"[">> \o EncodeItems(v[2], depth + 1)
                \o <<"\n">> \o Indent(depth) \o <<"]">>
  ELSE IF v[2] = <<>> THEN <<"{", "}">>
  ELSE <<"{">> \o EncodePairs(v[2], depth + 1)
         \o <<"\n">> \o Indent(depth) \o <<"}">>

\* json.MarshalIndent(jsonData, "", "  "); every value Unmarshal builds
\* is encodable, so the error result is never produced
MarshalIndent(v) == [ok |-> TRUE, bytes |-> Encode(v, 0)]


(***************************************************************************)
(* Bounds                                                                  *)
(***************************************************************************)
\* the clock runs from 0 to MaxTime
MaxTime == 2

\* CACHE_TTL_SECONDS is 0 or MaxTTL
MaxTTL == 1

\* number of requests that can be in progress at once
NumReqs == 1

\* number of goroutines that call the cache directly at once
NumThreads == 2

\* the ceiling on the bytes read from one upstream response: 10 * 1024 *
\* 1024 in the client, here a size that the longest document just fits
\* and a longer body exceeds
MaxResponseSize == 16

Reqs == 1..NumReqs

Threads == 1..NumThreads

TTLChoices == {0, MaxTTL}

(***************************************************************************)
(* Configuration: LoadConfig reads the environment once, at the start of   *)
(* main.  The string settings (getEnv) are left out.                       *)
(***************************************************************************)
EnvNames == {"UPSTREAM_TIMEOUT_SECONDS", "CACHE_TTL_SECONDS", "PRETTY_PRINT_JSON"}

\* the values a variable is given: empty, integers with and without sign,
\* the words ParseBool knows, and text that is neither
EnvValues ==
  { <<>>, <<"0">>, <<"1">>, <<"-", "1">>, <<"+", "7">>, <<"1", "x">>, <<"-">>,
    <<"t", "r", "u", "e">>, <<"F", "A", "L", "S", "E">>, <<"y", "e", "s">> }

Unset == [set |-> FALSE, value |-> <<>>]

Setting(v) == [set |-> TRUE, value |-> v]

\* os.Clearenv
NoEnv == [k \in EnvNames |-> Unset]

\* os.Getenv: the value, or "" when the variable is not set
Getenv(e, key) == IF e[key].set THEN e[key].value ELSE <<>>

RECURSIVE AtoiDigits(_, _)
AtoiDigits(s, n) ==
  IF s = <<>> THEN [ok |-> TRUE, n |-> n]
  ELSE IF ~IsDigit(Head(s)) THEN [ok |-> FALSE, n |-> 0]
  ELSE AtoiDigits(Tail(s), 10 * n + DigitVal(Head(s)))

\* strconv.Atoi on a string short enough for its fast path: an optional
\* sign, then one digit or more
Atoi(s) ==
  IF s = <<>> THEN [ok |-> FALSE, n |-> 0]
  ELSE LET digits == IF Head(s) \in {"-", "+"} THEN Tail(s) ELSE s
           d == AtoiDigits(digits, 0) IN
       IF digits = <<>> \/ ~d.ok THEN [ok |-> FALSE, n |-> 0]
       ELSE [ok |-> TRUE, n |-> IF Head(s) = "-" THEN 0 - d.n ELSE d.n]

\* strconv.ParseBool: twelve spellings, everything else is an error
ParseBool(s) ==
  IF s \in { <<"1">>, <<"t">>, <<"T">>, <<"T", "R", "U", "E">>,
             <<"t", "r", "u", "e">>, <<"T", "r", "u", "e">> }
  THEN [ok |-> TRUE, b |-> TRUE]
  ELSE IF s \in { <<"0">>, <<"f">>, <<"F">>, <<"F", "A", "L", "S", "E">>,
                  <<"f", "a", "l", "s", "e">>, <<"F", "a", "l", "s", "e">> }
  THEN [ok |-> TRUE, b |-> FALSE]
  ELSE [ok |-> FALSE, b |-> FALSE]

\* variant of getEnvAsInt: a value that is not positive is taken as
\* missing
getEnvAsIntPositive(e, key, defaultValue) ==
  LET valueStr == Getenv(e, key)
      value == Atoi(valueStr) IN
  IF valueStr = <<>> THEN defaultValue
  ELSE IF ~value.ok THEN defaultValue
  ELSE IF value.n <= 0 THEN defaultValue
  ELSE value.n

getEnvAsInt(e, key, defaultValue) ==
  LET valueStr == Getenv(e, key)
      value == Atoi(valueStr) IN
  IF valueStr = <<>> THEN defaultValue
  ELSE IF ~value.ok THEN defaultValue
  ELSE value.n

getEnvAsBool(e, key, defaultValue) ==
  LET valueStr == Getenv(e, key)
      value == ParseBool(valueStr) IN
  IF valueStr = <<>> THEN defaultValue
  ELSE IF ~value.ok THEN defaultValue
  ELSE value.b

LoadConfig(e) ==
  [UpstreamTimeoutSeconds |-> getEnvAsInt(e, "UPSTREAM_TIMEOUT_SECONDS", 5),
   CacheTTLSeconds |-> getEnvAsInt(e, "CACHE_TTL_SECONDS", 60),
   PrettyPrintJSON |-> getEnvAsBool(e, "PRETTY_PRINT_JSON", TRUE)]

\* Config{}: the struct before LoadConfig has filled it
ZeroConfig ==
  [UpstreamTimeoutSeconds |-> 0, CacheTTLSeconds |-> 0, PrettyPrintJSON |-> FALSE]

(***************************************************************************)
(* The two document paths and the routes                                   *)
(***************************************************************************)
DiscoveryPath == "/.well-known/openid-configuration"

JWKSPath == "/openid/v1/jwks"

\* variant of paths: the probe populates the discovery document only
pathsDiscoveryOnly == <<DiscoveryPath>>

\* populateCache: paths := []string{...}
paths == <<DiscoveryPath, JWKSPath>>

Keys == {DiscoveryPath, JWKSPath}

Methods == {"GET", "POST"}

KnownPaths == {DiscoveryPath, JWKSPath, "/healthz", "/readyz"}

URLPaths == KnownPaths \cup {"/some/other/path", "/openid/v1/jwks/"}

DocHandlers == {"HandleOIDCDiscovery", "HandleJWKS"}

ProbeHandlers == {"HandleHealthz", "HandleReadyz"}

\* variant of Route: the JWKS pattern also matches the paths below it
RouteSubtree(urlPath) ==
  IF urlPath = DiscoveryPath THEN "HandleOIDCDiscovery"
  ELSE IF urlPath \in {JWKSPath, "/openid/v1/jwks/"} THEN "HandleJWKS"
  ELSE IF urlPath = "/healthz" THEN "HandleHealthz"
  ELSE IF urlPath = "/readyz" THEN "HandleReadyz"
  ELSE "HandleNotFound"

\* mux.HandleFunc registrations: four exact patterns and the catch-all "/"
Route(urlPath) ==
  IF urlPath = DiscoveryPath THEN "HandleOIDCDiscovery"
  ELSE IF urlPath = JWKSPath THEN "HandleJWKS"
  ELSE IF urlPath = "/healthz" THEN "HandleHealthz"
  ELSE IF urlPath = "/readyz" THEN "HandleReadyz"
  ELSE "HandleNotFound"

(***************************************************************************)
(* What the upstream can send                                              *)
(***************************************************************************)
\* {"keys":[]}
DocJWKS == <<"{", "\"", "k", "e", "y", "s", "\"", ":", "[", "]", "}">>

\* {"b":1, "a":"x"}
DocDiscovery ==
  <<"{", "\"", "b", "\"", ":", "1", ",", " ", "\"", "a", "\"", ":",
    "\"", "x", "\"", "}">>

\* not JSON
DocGarbage == <<"n", "o", "t">>

\* the JWKS document followed by spaces, one byte longer than
\* MaxResponseSize
DocOversize ==
  DocJWKS \o [i \in 1..(MaxResponseSize + 1 - Len(DocJWKS)) |-> " "]

\* the bodies the API server can send for a path: the document, and
\* bytes that are no JSON or a body over the size ceiling
UpstreamBodies(path) ==
  IF path = DiscoveryPath THEN {DocDiscovery, DocGarbage}
  ELSE {DocJWKS, DocGarbage, DocOversize}

\* no response received
NoUpstream ==
  [transportErr |-> FALSE, StatusCode |-> 0, Body |-> <<>>, readErr |-> FALSE]

\* what the API server does with one request: the transport fails
\* (connection error, timeout, cancelled context), or a response arrives
\* whose body may fail while it is read
UpstreamResponses(path) ==
  {[transportErr |-> TRUE, StatusCode |-> 0, Body |-> <<>>, readErr |-> FALSE],
   [transportErr |-> FALSE, StatusCode |-> 204, Body |-> <<>>, readErr |-> FALSE],
   [transportErr |-> FALSE, StatusCode |-> 200, Body |-> <<>>, readErr |-> TRUE]}
  \cup [transportErr : {FALSE}, StatusCode : {200}, Body : UpstreamBodies(path),
        readErr : {FALSE}]

(***************************************************************************)
(* State                                                                   *)
(***************************************************************************)
VARIABLES
  config,          \* Config: CacheTTLSeconds, PrettyPrintJSON
  upstreamClient,  \* App.upstreamClient: "nil" or "set"
  now,             \* time.Now()
  entries,         \* Cache.entries: key -> NoEntry or CacheEntry
  req,             \* the requests in progress, one per slot
  out,             \* the request that finished last, with its response
  lastSet,         \* history: the latest Set call made for each key
  files,           \* the token file and the CA file as the process finds them
  server,          \* how far main has come
  mu,              \* Cache.mu: the writer holding it, the readers holding it
  th,              \* the goroutines calling the cache, each at a place in a call
  ret,             \* what the Get or GetStale that returned last returned
  written,         \* history: every entry a Set has written
  lastLock,        \* history: the Set that took the write lock last
  env              \* os.Environ: the variables LoadConfig reads

\* the part of the state that belongs to direct callers of the cache
callers == <<mu, th, ret, written, lastLock>>

vars ==
  <<config, upstreamClient, now, entries, req, out, lastSet, files, server,
    mu, th, ret, written, lastLock, env>>

NoEntry == [exists |-> FALSE, Body |-> <<>>, ExpiresAt |-> 0]

CacheEntry(body, expiresAt) ==
  [exists |-> TRUE, Body |-> body, ExpiresAt |-> expiresAt]

\* byOut: this Set was the last act of the request now recorded in out
NoSet == [called |-> FALSE, body |-> <<>>, at |-> 0, byOut |-> FALSE]

\* Config.GetCacheTTL, in clock units
GetCacheTTL(c) == c.CacheTTLSeconds

(***************************************************************************)
(* Cache                                                                   *)
(***************************************************************************)
\* NewCache: an empty map; any path string can become a key
NewCache == [k \in URLPaths |-> NoEntry]

\* time.Time.After
After(t, u) == t > u

\* variant of Get: an entry read at exactly ExpiresAt counts as expired
GetExpiredAtDeadline(e, key, t) ==
  IF ~e[key].exists THEN [found |-> FALSE, body |-> <<>>]
  ELSE IF t >= e[key].ExpiresAt THEN [found |-> FALSE, body |-> <<>>]
  ELSE [found |-> TRUE, body |-> e[key].Body]

\* Cache.Get: the entry's body if it exists and now is not after ExpiresAt
Get(e, key, t) ==
  IF ~e[key].exists THEN [found |-> FALSE, body |-> <<>>]
  ELSE IF After(t, e[key].ExpiresAt) THEN [found |-> FALSE, body |-> <<>>]
  ELSE [found |-> TRUE, body |-> e[key].Body]

\* Cache.GetStale: the entry's body if it exists, whatever its expiry
GetStale(e, key) ==
  IF ~e[key].exists THEN [found |-> FALSE, body |-> <<>>]
  ELSE [found |-> TRUE, body |-> e[key].Body]

\* variant of Set: an existing entry is kept
SetKeepsFirst(e, key, body, t, ttl) ==
  IF e[key].exists THEN e
  ELSE [e EXCEPT ![key] = CacheEntry(body, t + ttl)]

\* variant of Set: the map is made anew around the entry, which drops the
\* entries of the other keys
SetEvictsOthers(e, key, body, t, ttl) ==
  [k \in DOMAIN e |-> IF k = key THEN CacheEntry(body, t + ttl) ELSE NoEntry]

\* variant of Set: the TTL is not added to the expiry
SetExpiresNow(e, key, body, t, ttl) ==
  [e EXCEPT ![key] = CacheEntry(body, t)]

\* Cache.Set: replaces the entry, ExpiresAt = time.Now().Add(c.ttl)
Set(e, key, body, t, ttl) ==
  [e EXCEPT ![key] = CacheEntry(body, t + ttl)]

(***************************************************************************)
(* The cache under concurrent callers: each call takes the lock, touches   *)
(* the map, and releases the lock on return                                *)
(***************************************************************************)
\* the key the concurrent callers use
SharedKey == JWKSPath

\* the bodies the concurrent callers store
SetBodies == {DocJWKS, DocGarbage}

\* sync.RWMutex, unlocked
NoLock == [writer |-> 0, readers |-> {}]

\* RLock waits while a writer holds the mutex
CanRLock(m) == m.writer = 0

RLock(m, t) == [m EXCEPT !.readers = @ \cup {t}]

\* variant of RUnlock: the deferred RUnlock is missing
RUnlockForgotten(m, t) == m

RUnlock(m, t) == [m EXCEPT !.readers = @ \ {t}]

\* variant of CanLock: Set does not wait for the mutex
CanLockAlways(m) == TRUE

\* Lock waits while a writer or a reader holds the mutex
CanLock(m) == m.writer = 0 /\ m.readers = {}

Lock(m, t) == [m EXCEPT !.writer = t]

Unlock(m, t) == [m EXCEPT !.writer = 0]

\* a goroutine outside any call, or waiting for the mutex; in is the
\* handler it runs (none for a direct caller of the cache) and idx the
\* position of populateCache in paths
IdleThread ==
  [pc |-> "idle", op |-> "", body |-> <<>>, entry |-> NoEntry, in |-> "",
   idx |-> 0]

\* no Get or GetStale has returned
NoRet == [op |-> "", found |-> FALSE, body |-> <<>>, entry |-> NoEntry]

NoLastLock == [called |-> FALSE, thread |-> 0, entry |-> NoEntry]

CallersUnchanged ==
  UNCHANGED <<config, upstreamClient, req, out, lastSet, files, server, env>>

\* Get, GetStale: the call, up to the return of c.mu.RLock()
CacheRLock(t, op) ==
  /\ th[t].pc = "idle"
  /\ CanRLock(mu)
  /\ mu' = RLock(mu, t)
  /\ th' = [th EXCEPT ![t] = [IdleThread EXCEPT !.pc = "read", !.op = op]]
  /\ UNCHANGED <<now, entries, written, lastLock, ret>>
  /\ CallersUnchanged

\* Get, GetStale: entry, exists := c.entries[key]
CacheRead(t) ==
  /\ th[t].pc = "read"
  /\ th' = [th EXCEPT ![t].pc = "return", ![t].entry = entries[SharedKey]]
  /\ UNCHANGED <<now, entries, mu, written, lastLock, ret>>
  /\ CallersUnchanged

\* Get, GetStale: the expiry check of Get, the return, and the deferred
\* c.mu.RUnlock()
CacheReturn(t) ==
  LET read == [entries EXCEPT ![SharedKey] = th[t].entry]
      r == IF th[t].op = "Get" THEN Get(read, SharedKey, now)
           ELSE GetStale(read, SharedKey) IN
  /\ th[t].pc = "return"
  /\ mu' = RUnlock(mu, t)
  /\ th' = [th EXCEPT ![t] = IdleThread]
  /\ ret' = [op |-> th[t].op, found |-> r.found, body |-> r.body,
             entry |-> IF r.found THEN th[t].entry ELSE NoEntry]
  /\ UNCHANGED <<now, entries, written, lastLock>>
  /\ CallersUnchanged

\* Set: the call, up to the return of c.mu.Lock()
CacheLock(t, body) ==
  /\ th[t].pc = "idle"
  /\ CanLock(mu)
  /\ mu' = Lock(mu, t)
  /\ th' = [th EXCEPT ![t] = [IdleThread EXCEPT !.pc = "write", !.op = "Set",
                                                !.body = body]]
  /\ lastLock' = [called |-> TRUE, thread |-> t, entry |-> NoEntry]
  /\ UNCHANGED <<now, entries, written, ret>>
  /\ CallersUnchanged

\* variant of CacheWrite: the expiry is computed from a reading of the
\* clock taken before the lock was obtained
CacheWriteClockBeforeLock(t) ==
  /\ th[t].pc = "write"
  /\ \E t0 \in 0..now :
       entries' = Set(entries, SharedKey, th[t].body, t0, GetCacheTTL(config))
  /\ written' = written \cup {entries'[SharedKey]}
  /\ lastLock' = IF lastLock.thread = t
                 THEN [lastLock EXCEPT !.entry = entries'[SharedKey]]
                 ELSE lastLock
  /\ th' = [th EXCEPT ![t].pc = "unlock"]
  /\ UNCHANGED <<now, mu, ret>>
  /\ CallersUnchanged

\* Set: c.entries[key] = &CacheEntry{...}
CacheWrite(t) ==
  /\ th[t].pc = "write"
  /\ entries' = Set(entries, SharedKey, th[t].body, now, GetCacheTTL(config))
  /\ written' = written \cup {entries'[SharedKey]}
  /\ lastLock' = IF lastLock.thread = t
                 THEN [lastLock EXCEPT !.entry = entries'[SharedKey]]
                 ELSE lastLock
  /\ th' = [th EXCEPT ![t].pc = "unlock"]
  /\ UNCHANGED <<now, mu, ret>>
  /\ CallersUnchanged

\* Set: the deferred c.mu.Unlock() and the return
CacheUnlock(t) ==
  /\ th[t].pc = "unlock"
  /\ mu' = Unlock(mu, t)
  /\ th' = [th EXCEPT ![t] = IdleThread]
  /\ UNCHANGED <<now, entries, written, lastLock, ret>>
  /\ CallersUnchanged

(***************************************************************************)
(* Upstream client                                                         *)
(***************************************************************************)
\* io.LimitReader + io.ReadAll: at most n bytes are read, without error
LimitReader(body, n) ==
  IF Len(body) > n THEN SubSeq(body, 1, n) ELSE body

\* variant of Fetch: every 2xx status counts as success
FetchAny2xx(u) ==
  IF u.transportErr THEN [err |-> TRUE, body |-> <<>>]
  ELSE IF u.StatusCode \notin 200..299 THEN [err |-> TRUE, body |-> <<>>]
  ELSE IF u.readErr THEN [err |-> TRUE, body |-> <<>>]
  ELSE [err |-> FALSE, body |-> LimitReader(u.Body, MaxResponseSize)]

\* UpstreamClient.Fetch, given what the upstream did with the request
Fetch(u) ==
  IF u.transportErr THEN [err |-> TRUE, body |-> <<>>]
  ELSE IF u.StatusCode # 200 THEN [err |-> TRUE, body |-> <<>>]
  ELSE IF u.readErr THEN [err |-> TRUE, body |-> <<>>]
  ELSE [err |-> FALSE, body |-> LimitReader(u.Body, MaxResponseSize)]

(***************************************************************************)
(* Responses                                                               *)
(***************************************************************************)
NoHeader == [ContentType |-> "", CacheControl |-> <<>>, ETag |-> <<>>]

NoResp == [status |-> 0, body |-> <<>>, header |-> NoHeader]

\* sha256.Sum256 + hex.EncodeToString, as a collision-free digest of the
\* bytes
Sha256Hex(body) == <<"sha256", body>>

\* http.Error: plain text, the message and a newline
HttpError(msg, code) ==
  [status |-> code, body |-> <<msg, "\n">>,
   header |-> [ContentType |-> "text/plain; charset=utf-8",
               CacheControl |-> <<>>, ETag |-> <<>>]]

\* variant of writeJSONResponse: the tag is computed from the body and the
\* time of the response
writeJSONResponseTagsTime(body, statusCode, c) ==
  [status |-> statusCode, body |-> body,
   header |-> [ContentType |-> "application/json",
               CacheControl |-> <<"max-age=", c.CacheTTLSeconds>>,
               ETag |-> <<"\"">>
                        \o Sha256Hex(body \o <<IF now = 0 THEN "0" ELSE "1">>)
                        \o <<"\"">>]]

\* writeJSONResponse
writeJSONResponse(body, statusCode, c) ==
  [status |-> statusCode, body |-> body,
   header |-> [ContentType |-> "application/json",
               CacheControl |-> <<"max-age=", c.CacheTTLSeconds>>,
               ETag |-> <<"\"">> \o Sha256Hex(body) \o <<"\"">>]]

\* w.WriteHeader(http.StatusOK); w.Write([]byte("OK"))
ProbeOK == [status |-> 200, body |-> <<"O", "K">>, header |-> NoHeader]

\* the pretty-print step of handleCachedEndpoint and populateCache
ProcessBody(body, pretty) ==
  IF pretty THEN
    LET jsonData == Unmarshal(body) IN
    IF ~jsonData.ok THEN [err |-> "json_parse_error", bytes |-> <<>>]
    ELSE LET prettyJSON == MarshalIndent(jsonData.val) IN
         IF ~prettyJSON.ok THEN [err |-> "json_marshal_error", bytes |-> <<>>]
         ELSE [err |-> "", bytes |-> prettyJSON.bytes]
  ELSE [err |-> "", bytes |-> body]


(***************************************************************************)
(* Requests                                                                *)
(***************************************************************************)
\* a slot with no request in it.  fetches, reads and writes count the
\* request's calls of Fetch, of Get/GetStale and of Set; upstream is what
\* the API server did with its latest Fetch, fetchErr and fetched are the
\* result of that Fetch; gone is 0 while the client is connected, and
\* else the number of the Fetch that was in flight when it went away
IdleReq ==
  [pc |-> "idle", method |-> "", urlPath |-> "", handler |-> "",
   path |-> "", idx |-> 0, fetches |-> 0, reads |-> 0, writes |-> 0,
   upstream |-> NoUpstream, fetchErr |-> FALSE, fetched |-> <<>>,
   outcome |-> "", resp |-> NoResp, gone |-> 0]

\* variant of CtxOf: every Fetch is given context.Background()
CtxOfBackground(q) == "background"

\* the context a handler passes to Fetch: r.Context() in
\* handleCachedEndpoint, context.Background() in populateCache
CtxOf(q) == IF q.handler \in DocHandlers THEN "request" ELSE "background"

\* ctx.Done() is closed: the server cancels r.Context() when the client's
\* connection closes; context.Background() is never cancelled
CtxDone(q) == CtxOf(q) = "request" /\ q.gone > 0

\* httpClient.Do and the read of the body under the request's context:
\* once the context is cancelled, Do fails, or the response that had
\* arrived has a status other than 200, or the read of its body fails
CtxAllows(q, u) ==
  CtxDone(q) => u.transportErr \/ u.StatusCode # 200 \/ u.readErr

\* a request as the mux hands it to a handler
NewReq(method, urlPath) ==
  [IdleReq EXCEPT !.method = method, !.urlPath = urlPath,
                  !.handler = Route(urlPath)]

Unchanged ==
  UNCHANGED <<config, upstreamClient, now, files, server, callers, env>>

\* handlers run once main serves, or when a test calls them on its App
Serving == server.pc \in {"serving", "test"}

\* a new request takes the lowest free slot: the slots are interchangeable
Free(r) ==
  /\ Serving
  /\ req[r].pc = "idle"
  /\ \A r2 \in Reqs : r2 < r => req[r2].pc # "idle"

\* history: a Set(key, body) is called now; final says that the caller
\* responds in the same step
NoteSet(key, body, final) ==
  [k \in Keys |->
     IF k = key
     THEN [called |-> TRUE, body |-> body, at |-> now, byOut |-> final]
     ELSE IF final THEN [lastSet[k] EXCEPT !.byOut = FALSE]
     ELSE lastSet[k]]

\* the handler returns after writing the response; the slot is free again
Respond(r, q, outcome, resp) ==
  /\ req' = [req EXCEPT ![r] = IdleReq]
  /\ out' = [q EXCEPT !.pc = "done", !.outcome = outcome, !.resp = resp]

\* a response that comes with no Set
RespondOnly(r, q, outcome, resp) ==
  /\ Respond(r, q, outcome, resp)
  /\ entries' = entries
  /\ lastSet' = [k \in Keys |-> [lastSet[k] EXCEPT !.byOut = FALSE]]

\* a.cache.Set(path, body) followed by the response
StoreAndRespond(r, q, body, outcome, resp) ==
  /\ Respond(r, [q EXCEPT !.writes = q.writes + 1], outcome, resp)
  /\ entries' = Set(entries, q.path, body, now, GetCacheTTL(config))
  /\ lastSet' = NoteSet(q.path, body, TRUE)

\* a.upstreamClient.Fetch is called: the request waits for the upstream
StartFetch(r, q, path) ==
  /\ req' = [req EXCEPT ![r] =
       [q EXCEPT !.pc = "fetching", !.path = path, !.fetches = q.fetches + 1]]
  /\ out' = out

(***************************************************************************)
(* handleCachedEndpoint                                                    *)
(***************************************************************************)
\* variant of handleCachedEndpoint: a hit stores the entry again, which
\* renews its expiry
handleCachedEndpointRenews(r, q, path) ==
  LET cached == Get(entries, path, now)
      q1 == [q EXCEPT !.path = path, !.reads = 1] IN
  IF cached.found
  THEN StoreAndRespond(r, q1, cached.body, "cache_hit",
                       writeJSONResponse(cached.body, 200, config))
  ELSE IF upstreamClient = "nil"
  THEN /\ req' = [req EXCEPT ![r] = IdleReq]
       /\ out' = [q1 EXCEPT !.pc = "panic", !.outcome = "panic"]
       /\ entries' = entries
       /\ lastSet' = [k \in Keys |-> [lastSet[k] EXCEPT !.byOut = FALSE]]
  ELSE /\ StartFetch(r, q1, path)
       /\ UNCHANGED <<entries, lastSet>>

\* from the cache lookup to the call of Fetch
handleCachedEndpoint(r, q, path) ==
  LET cached == Get(entries, path, now)
      q1 == [q EXCEPT !.path = path, !.reads = 1] IN
  IF cached.found
  THEN RespondOnly(r, q1, "cache_hit", writeJSONResponse(cached.body, 200, config))
  ELSE IF upstreamClient = "nil"
  THEN \* a.upstreamClient.Fetch on a nil client: nil pointer dereference
       /\ req' = [req EXCEPT ![r] = IdleReq]
       /\ out' = [q1 EXCEPT !.pc = "panic", !.outcome = "panic"]
       /\ entries' = entries
       /\ lastSet' = [k \in Keys |-> [lastSet[k] EXCEPT !.byOut = FALSE]]
  ELSE /\ StartFetch(r, q1, path)
       /\ UNCHANGED <<entries, lastSet>>

\* variant of staleOnError: a failed fetch is tried once more before the
\* stale lookup
staleOnErrorRetries(r, q) ==
  LET staleData == GetStale(entries, q.path)
      q1 == [q EXCEPT !.reads = q.reads + 1] IN
  IF q.fetches < 2
  THEN /\ StartFetch(r, q, q.path)
       /\ UNCHANGED <<entries, lastSet>>
  ELSE IF staleData.found
  THEN RespondOnly(r, q1, "serving_stale_cache",
                   writeJSONResponse(staleData.body, 200, config))
  ELSE RespondOnly(r, q1, "upstream_error", HttpError("Bad Gateway", 502))

\* variant of staleOnError: no stale lookup, every failed fetch is a 502
staleOnErrorAlways502(r, q) ==
  RespondOnly(r, q, "upstream_error", HttpError("Bad Gateway", 502))

\* variant of staleOnError: the found flag of GetStale is ignored
staleOnErrorIgnoresFound(r, q) ==
  LET staleData == GetStale(entries, q.path)
      q1 == [q EXCEPT !.reads = q.reads + 1] IN
  RespondOnly(r, q1, "serving_stale_cache",
              writeJSONResponse(staleData.body, 200, config))

\* variant of staleOnError: a stale response tells downstream caches not
\* to keep it
staleOnErrorNoMaxAge(r, q) ==
  LET staleData == GetStale(entries, q.path)
      q1 == [q EXCEPT !.reads = q.reads + 1]
      resp == writeJSONResponse(staleData.body, 200, config) IN
  IF staleData.found
  THEN RespondOnly(r, q1, "serving_stale_cache",
                   [resp EXCEPT !.header.CacheControl = <<"max-age=", 0>>])
  ELSE RespondOnly(r, q1, "upstream_error", HttpError("Bad Gateway", 502))

\* variant of staleOnError: the stale entry that is served is stored
\* again, which gives it a new expiry
staleOnErrorRenews(r, q) ==
  LET staleData == GetStale(entries, q.path)
      q1 == [q EXCEPT !.reads = q.reads + 1] IN
  IF staleData.found
  THEN StoreAndRespond(r, q1, staleData.body, "serving_stale_cache",
                       writeJSONResponse(staleData.body, 200, config))
  ELSE RespondOnly(r, q1, "upstream_error", HttpError("Bad Gateway", 502))

\* if err != nil: stale-on-error, else 502
staleOnError(r, q) ==
  LET staleData == GetStale(entries, q.path)
      q1 == [q EXCEPT !.reads = q.reads + 1] IN
  IF staleData.found
  THEN RespondOnly(r, q1, "serving_stale_cache",
                   writeJSONResponse(staleData.body, 200, config))
  ELSE RespondOnly(r, q1, "upstream_error", HttpError("Bad Gateway", 502))

\* variant of processAndStore: the bytes stored are the fetched ones, not
\* the processed ones
processAndStoreRaw(r, q, body) ==
  LET p == ProcessBody(body, config.PrettyPrintJSON) IN
  IF p.err = "json_parse_error"
  THEN RespondOnly(r, q, "json_parse_error", HttpError("Bad Gateway", 502))
  ELSE IF p.err = "json_marshal_error"
  THEN RespondOnly(r, q, "json_marshal_error",
                   HttpError("Internal Server Error", 500))
  ELSE StoreAndRespond(r, q, body, "upstream_fetch",
                       writeJSONResponse(p.bytes, 200, config))

\* variant of processAndStore: bytes that do not parse are answered as
\* the probes answer a failure
processAndStoreUnavailable(r, q, body) ==
  LET p == ProcessBody(body, config.PrettyPrintJSON) IN
  IF p.err = "json_parse_error"
  THEN RespondOnly(r, q, "json_parse_error",
                   HttpError("Service Unavailable", 503))
  ELSE IF p.err = "json_marshal_error"
  THEN RespondOnly(r, q, "json_marshal_error",
                   HttpError("Internal Server Error", 500))
  ELSE StoreAndRespond(r, q, p.bytes, "upstream_fetch",
                       writeJSONResponse(p.bytes, 200, config))

\* variant of processAndStore: bytes that do not parse are passed on as
\* they came
processAndStoreFallsBack(r, q, body) ==
  LET p == ProcessBody(body, config.PrettyPrintJSON) IN
  IF p.err = "json_parse_error"
  THEN StoreAndRespond(r, q, body, "upstream_fetch",
                       writeJSONResponse(body, 200, config))
  ELSE IF p.err = "json_marshal_error"
  THEN RespondOnly(r, q, "json_marshal_error",
                   HttpError("Internal Server Error", 500))
  ELSE StoreAndRespond(r, q, p.bytes, "upstream_fetch",
                       writeJSONResponse(p.bytes, 200, config))

\* process the fetched body, store it, return it
processAndStore(r, q, body) ==
  LET p == ProcessBody(body, config.PrettyPrintJSON) IN
  IF p.err = "json_parse_error"
  THEN RespondOnly(r, q, "json_parse_error", HttpError("Bad Gateway", 502))
  ELSE IF p.err = "json_marshal_error"
  THEN RespondOnly(r, q, "json_marshal_error",
                   HttpError("Internal Server Error", 500))
  ELSE StoreAndRespond(r, q, p.bytes, "upstream_fetch",
                       writeJSONResponse(p.bytes, 200, config))

\* from the return of Fetch to the response
handleCachedEndpointFetched(r, u) ==
  LET q == [req[r] EXCEPT !.upstream = u]
      f == Fetch(u) IN
  /\ q.pc = "fetching"
  /\ q.handler \in DocHandlers
  /\ CtxAllows(q, u)
  /\ Unchanged
  /\ IF f.err
     THEN staleOnError(r, [q EXCEPT !.fetchErr = TRUE])
     ELSE processAndStore(r, [q EXCEPT !.fetched = f.body], f.body)

(***************************************************************************)
(* Document handlers                                                       *)
(***************************************************************************)
HandleOIDCDiscovery(r, method, urlPath) ==
  LET q == NewReq(method, urlPath) IN
  /\ Free(r)
  /\ Route(urlPath) = "HandleOIDCDiscovery"
  /\ Unchanged
  /\ IF method # "GET"
     THEN RespondOnly(r, q, "method_not_allowed", HttpError("Method Not Allowed", 405))
     ELSE handleCachedEndpoint(r, q, DiscoveryPath)

HandleJWKS(r, method, urlPath) ==
  LET q == NewReq(method, urlPath) IN
  /\ Free(r)
  /\ Route(urlPath) = "HandleJWKS"
  /\ Unchanged
  /\ IF method # "GET"
     THEN RespondOnly(r, q, "method_not_allowed", HttpError("Method Not Allowed", 405))
     ELSE handleCachedEndpoint(r, q, JWKSPath)

(***************************************************************************)
(* Probes                                                                  *)
(***************************************************************************)
\* variant of populateCache: nothing is fetched while both keys are fresh
populateCacheSkipsFresh(r, q, msg) ==
  IF upstreamClient = "nil"
  THEN RespondOnly(r, q, "probe_failed", HttpError(msg, 503))
  ELSE IF \A k \in Keys : Get(entries, k, now).found
  THEN RespondOnly(r, q, "probe_ok", ProbeOK)
  ELSE /\ StartFetch(r, [q EXCEPT !.idx = 1], paths[1])
       /\ UNCHANGED <<entries, lastSet>>

\* populateCache, up to the first call of Fetch; msg is the probe's 503 text
populateCache(r, q, msg) ==
  IF upstreamClient = "nil"
  THEN RespondOnly(r, q, "probe_failed", HttpError(msg, 503))
  ELSE /\ StartFetch(r, [q EXCEPT !.idx = 1], paths[1])
       /\ UNCHANGED <<entries, lastSet>>

ProbeMsg(handler) ==
  IF handler = "HandleHealthz" THEN "Service Unhealthy" ELSE "Service Unavailable"

\* variant of populateFailed: only a failed Fetch counts
populateFailedOnFetchOnly(f, p) == f.err

\* populateCache returns an error: Fetch failed, or the body did not
\* parse or did not re-serialise
populateFailed(f, p) == f.err \/ p.err # ""

\* variant of populateCacheFetched: the bytes stored are the fetched ones,
\* not the processed ones
populateCacheFetchedRaw(r, u) ==
  LET f == Fetch(u)
      q == [req[r] EXCEPT !.upstream = u, !.fetchErr = f.err,
                          !.fetched = f.body]
      p == ProcessBody(f.body, config.PrettyPrintJSON) IN
  /\ q.pc = "fetching"
  /\ q.handler \in ProbeHandlers
  /\ CtxAllows(q, u)
  /\ Unchanged
  /\ IF populateFailed(f, p)
     THEN RespondOnly(r, q, "probe_failed", HttpError(ProbeMsg(q.handler), 503))
     ELSE IF q.idx < Len(paths)
     THEN /\ entries' = Set(entries, q.path, f.body, now, GetCacheTTL(config))
          /\ lastSet' = NoteSet(q.path, f.body, FALSE)
          /\ StartFetch(r, [q EXCEPT !.idx = q.idx + 1, !.writes = q.writes + 1],
                        paths[q.idx + 1])
     ELSE StoreAndRespond(r, q, f.body, "probe_ok", ProbeOK)

\* variant of populateCacheFetched: nothing is stored until every path
\* has been fetched and formatted, and then all the bodies are stored
populateCacheFetchedAtomic(r, u) ==
  LET f == Fetch(u)
      q == [req[r] EXCEPT !.upstream = u, !.fetchErr = f.err,
                          !.fetched = f.body]
      p == ProcessBody(f.body, config.PrettyPrintJSON)
      first == ProcessBody(req[r].fetched, config.PrettyPrintJSON) IN
  /\ q.pc = "fetching"
  /\ q.handler \in ProbeHandlers
  /\ CtxAllows(q, u)
  /\ Unchanged
  /\ IF populateFailed(f, p)
     THEN RespondOnly(r, q, "probe_failed", HttpError(ProbeMsg(q.handler), 503))
     ELSE IF q.idx < Len(paths)
     THEN /\ UNCHANGED <<entries, lastSet>>
          /\ StartFetch(r, [q EXCEPT !.idx = q.idx + 1], paths[q.idx + 1])
     ELSE /\ Respond(r, [q EXCEPT !.writes = Len(paths)], "probe_ok", ProbeOK)
          /\ entries' = Set(Set(entries, paths[1], first.bytes, now,
                                GetCacheTTL(config)),
                            q.path, p.bytes, now, GetCacheTTL(config))
          /\ lastSet' = [k \in Keys |->
               [called |-> TRUE,
                body |-> IF k = q.path THEN p.bytes ELSE first.bytes,
                at |-> now, byOut |-> k = q.path]]

\* populateCache, from the return of a Fetch to the next Fetch or to the
\* probe's response
populateCacheFetched(r, u) ==
  LET f == Fetch(u)
      q == [req[r] EXCEPT !.upstream = u, !.fetchErr = f.err,
                          !.fetched = f.body]
      p == ProcessBody(f.body, config.PrettyPrintJSON) IN
  /\ q.pc = "fetching"
  /\ q.handler \in ProbeHandlers
  /\ CtxAllows(q, u)
  /\ Unchanged
  /\ IF populateFailed(f, p)
     THEN RespondOnly(r, q, "probe_failed", HttpError(ProbeMsg(q.handler), 503))
     ELSE IF q.idx < Len(paths)
     THEN /\ entries' = Set(entries, q.path, p.bytes, now, GetCacheTTL(config))
          /\ lastSet' = NoteSet(q.path, p.bytes, FALSE)
          /\ StartFetch(r, [q EXCEPT !.idx = q.idx + 1, !.writes = q.writes + 1],
                        paths[q.idx + 1])
     ELSE StoreAndRespond(r, q, p.bytes, "probe_ok", ProbeOK)

\* variant of HandleHealthz: no method check
HandleHealthzAnyMethod(r, method, urlPath) ==
  LET q == NewReq(method, urlPath) IN
  /\ Free(r)
  /\ Route(urlPath) = "HandleHealthz"
  /\ Unchanged
  /\ populateCache(r, q, "Service Unhealthy")

HandleHealthz(r, method, urlPath) ==
  LET q == NewReq(method, urlPath) IN
  /\ Free(r)
  /\ Route(urlPath) = "HandleHealthz"
  /\ Unchanged
  /\ IF method # "GET"
     THEN RespondOnly(r, q, "method_not_allowed", HttpError("Method Not Allowed", 405))
     ELSE populateCache(r, q, "Service Unhealthy")

HandleReadyz(r, method, urlPath) ==
  LET q == NewReq(method, urlPath) IN
  /\ Free(r)
  /\ Route(urlPath) = "HandleReadyz"
  /\ Unchanged
  /\ IF method # "GET"
     THEN RespondOnly(r, q, "method_not_allowed", HttpError("Method Not Allowed", 405))
     ELSE populateCache(r, q, "Service Unavailable")

\* variant of HandleNotFound: a GET for any other path is passed on to the
\* upstream under the path of the request
HandleNotFoundProxies(r, method, urlPath) ==
  /\ Free(r)
  /\ Route(urlPath) = "HandleNotFound"
  /\ Unchanged
  /\ IF method # "GET"
     THEN RespondOnly(r, NewReq(method, urlPath), "not_found",
                      HttpError("Not Found", 404))
     ELSE /\ StartFetch(r, NewReq(method, urlPath), urlPath)
          /\ UNCHANGED <<entries, lastSet>>

\* HandleNotFound: every path the mux has no exact pattern for
HandleNotFound(r, method, urlPath) ==
  /\ Free(r)
  /\ Route(urlPath) = "HandleNotFound"
  /\ Unchanged
  /\ RespondOnly(r, NewReq(method, urlPath), "not_found", HttpError("Not Found", 404))

(***************************************************************************)
(* Clock and specification                                                 *)
(***************************************************************************)
Tick ==
  /\ now < MaxTime
  /\ now' = now + 1
  /\ UNCHANGED <<config, upstreamClient, entries, req, out, lastSet, files,
                 server, callers, env>>

(***************************************************************************)
(* Startup                                                                 *)
(***************************************************************************)
\* os.ReadFile(SATokenPath), os.ReadFile(SACACertPath) and
\* AppendCertsFromPEM: each file is there or not, and the CA file may hold
\* no certificate
FileStates ==
  [token : {"ok", "unreadable"}, ca : {"ok", "unreadable", "unparsable"}]

FilesOK == [token |-> "ok", ca |-> "ok"]

\* variant of NewUpstreamClient: the result of AppendCertsFromPEM is not
\* looked at
NewUpstreamClientAnyPEM(f) ==
  IF f.token = "unreadable"
  THEN [err |-> "failed to read service account token", client |-> "nil"]
  ELSE IF f.ca = "unreadable"
  THEN [err |-> "failed to read CA certificate", client |-> "nil"]
  ELSE [err |-> "", client |-> "set"]

\* NewUpstreamClient: the client, or the first error
NewUpstreamClient(f) ==
  IF f.token = "unreadable"
  THEN [err |-> "failed to read service account token", client |-> "nil"]
  ELSE IF f.ca = "unreadable"
  THEN [err |-> "failed to read CA certificate", client |-> "nil"]
  ELSE IF f.ca = "unparsable"
  THEN [err |-> "failed to parse CA certificate", client |-> "nil"]
  ELSE [err |-> "", client |-> "set"]

\* NewApp: (nil, err) when the client cannot be made, else the App with
\* its client and a new cache
NewApp(c, f) ==
  LET client == NewUpstreamClient(f) IN
  IF client.err # ""
  THEN [err |-> client.err, app |-> FALSE, upstreamClient |-> "nil"]
  ELSE [err |-> "", app |-> TRUE, upstreamClient |-> client.client]

\* main before NewApp
ProcessStart ==
  [pc |-> "NewApp", app |-> FALSE, routes |-> FALSE, listening |-> FALSE,
   exitCode |-> 0, deadline |-> 0]

\* an App a test of the package builds itself, without a client, and
\* whose handlers it calls
TestApp ==
  [pc |-> "test", app |-> TRUE, routes |-> FALSE, listening |-> FALSE,
   exitCode |-> 0, deadline |-> 0]

\* main, from NewApp to ListenAndServe or to os.Exit(1)
Main ==
  LET a == NewApp(config, files) IN
  /\ server.pc = "NewApp"
  /\ IF a.err # ""
     THEN /\ server' = [server EXCEPT !.pc = "exited", !.exitCode = 1]
          /\ UNCHANGED <<upstreamClient, entries>>
     ELSE /\ server' = [pc |-> "serving", app |-> a.app, routes |-> TRUE,
                        listening |-> TRUE, exitCode |-> 0, deadline |-> 0]
          /\ upstreamClient' = a.upstreamClient
          /\ entries' = NewCache
  /\ UNCHANGED <<config, now, req, out, lastSet, files, callers, env>>

\* the process at its start, with the files as they are, or an App that a
\* test of the package has built without a client
Init ==
  /\ config \in [CacheTTLSeconds : TTLChoices, PrettyPrintJSON : BOOLEAN]
  /\ upstreamClient = "nil"
  /\ now = 0
  /\ entries = NewCache
  /\ req = [r \in Reqs |-> IdleReq]
  /\ out = IdleReq
  /\ lastSet = [k \in Keys |-> NoSet]
  /\ \/ server = ProcessStart /\ files \in FileStates
     \/ server = TestApp /\ files = FilesOK
  /\ mu = NoLock
  /\ th = [t \in Threads |-> IdleThread]
  /\ ret = NoRet
  /\ written = {}
  /\ lastLock = NoLastLock
  /\ env = NoEnv

Next ==
  \/ Tick
  \/ Main
  \/ \E r \in Reqs, m \in Methods, p \in URLPaths : HandleOIDCDiscovery(r, m, p)
  \/ \E r \in Reqs, m \in Methods, p \in URLPaths : HandleJWKS(r, m, p)
  \/ \E r \in Reqs, m \in Methods, p \in URLPaths : HandleHealthz(r, m, p)
  \/ \E r \in Reqs, m \in Methods, p \in URLPaths : HandleReadyz(r, m, p)
  \/ \E r \in Reqs, m \in Methods, p \in URLPaths : HandleNotFound(r, m, p)
  \/ \E r \in Reqs : \E u \in UpstreamResponses(req[r].path) :
       handleCachedEndpointFetched(r, u)
  \/ \E r \in Reqs : \E u \in UpstreamResponses(req[r].path) :
       populateCacheFetched(r, u)

Spec == Init /\ [][Next]_vars

\* the client of a request that waits for the upstream closes its
\* connection
ClientDisconnect(r) ==
  /\ req[r].pc = "fetching"
  /\ req[r].gone = 0
  /\ req' = [req EXCEPT ![r].gone = req[r].fetches]
  /\ UNCHANGED <<entries, out, lastSet>>
  /\ Unchanged

\* the upstream answers, or the client's timeout ends the call: the Fetch
\* that request r waits for returns
FetchEnds(r) ==
  \E u \in UpstreamResponses(req[r].path) :
    handleCachedEndpointFetched(r, u) \/ populateCacheFetched(r, u)

\* the process that main starts with its files in place, with the default
\* formatting and a TTL that lets entries be fresh for a while
InitLive ==
  /\ Init
  /\ server = ProcessStart
  /\ files = FilesOK
  /\ config = [CacheTTLSeconds |-> MaxTTL, PrettyPrintJSON |-> TRUE]

\* every call of Fetch returns: http.Client.Timeout bounds it
SpecLive ==
  InitLive /\ [][Next]_vars /\ \A r \in Reqs : WF_vars(FetchEnds(r))

\* the process with the default formatting
InitCancel == Init /\ config.PrettyPrintJSON

\* the serving process with clients that can go away while they wait
NextCancel ==
  \/ Next
  \/ \E r \in Reqs : ClientDisconnect(r)

SpecCancel == InitCancel /\ [][NextCancel]_vars

\* a cache of its own, as the package's cache tests build it, called by
\* several goroutines
InitCache ==
  /\ config \in [CacheTTLSeconds : TTLChoices, PrettyPrintJSON : {FALSE}]
  /\ upstreamClient = "nil"
  /\ now = 0
  /\ entries = NewCache
  /\ req = [r \in Reqs |-> IdleReq]
  /\ out = IdleReq
  /\ lastSet = [k \in Keys |-> NoSet]
  /\ server = TestApp
  /\ files = FilesOK
  /\ mu = NoLock
  /\ th = [t \in Threads |-> IdleThread]
  /\ ret = NoRet
  /\ written = {}
  /\ lastLock = NoLastLock
  /\ env = NoEnv

NextCache ==
  \/ Tick
  \/ \E t \in Threads, op \in {"Get", "GetStale"} : CacheRLock(t, op)
  \/ \E t \in Threads : CacheRead(t)
  \/ \E t \in Threads : CacheReturn(t)
  \/ \E t \in Threads, body \in SetBodies : CacheLock(t, body)
  \/ \E t \in Threads : CacheWrite(t)
  \/ \E t \in Threads : CacheUnlock(t)

SpecCache == InitCache /\ [][NextCache]_vars

(***************************************************************************)
(* Handlers as goroutines: each request runs its handler on its own        *)
(* goroutine, and the handlers meet in the cache.  A call of Get, GetStale *)
(* or Set is two steps, the lock and the rest of the call; Fetch is        *)
(* called between them, and returns in a step of its own.                  *)
(***************************************************************************)
HandlersUnchanged ==
  UNCHANGED <<config, upstreamClient, now, req, out, lastSet, files, server,
              env, ret, written, lastLock>>

\* the key goroutine h works on
KeyOf(h) == IF h.in = "populateCache" THEN paths[h.idx] ELSE SharedKey

\* goroutine h has what it needs to answer: the outcome, and the bytes it
\* holds for the response
Answering(h, outcome, body) ==
  [h EXCEPT !.pc = "respond", !.op = outcome, !.body = body]

\* handleCachedEndpoint: a.cache.Get(path), up to the return of RLock
ReqGetRLock(t) ==
  /\ th[t].pc = "idle"
  /\ CanRLock(mu)
  /\ mu' = RLock(mu, t)
  /\ th' = [th EXCEPT ![t] = [IdleThread EXCEPT !.pc = "read", !.op = "Get",
                                                !.in = "handleCachedEndpoint"]]
  /\ entries' = entries
  /\ HandlersUnchanged

\* what the handler does with the result of Get or GetStale: after a miss
\* it calls Fetch (entry keeps what the map held for the key at the miss),
\* after a hit or a stale lookup it has its answer
AfterLookup(h) ==
  LET cached == Get(entries, KeyOf(h), now)
      staleData == GetStale(entries, KeyOf(h)) IN
  IF h.op = "Get"
  THEN IF cached.found THEN Answering(h, "cache_hit", cached.body)
       ELSE [h EXCEPT !.pc = "fetching", !.op = "Fetch",
                      !.entry = entries[KeyOf(h)]]
  ELSE IF staleData.found
       THEN Answering(h, "serving_stale_cache", staleData.body)
       ELSE Answering(h, "upstream_error", <<>>)

\* variant of ReqReturn: a request that misses while another request is
\* fetching the same key does not fetch, it goes on to the stale lookup
ReqReturnCoalesced(t) ==
  LET h == th[t] IN
  /\ h.pc = "read"
  /\ h.in = "handleCachedEndpoint"
  /\ mu' = RUnlock(mu, t)
  /\ th' = [th EXCEPT ![t] =
       IF /\ h.op = "Get"
          /\ ~Get(entries, KeyOf(h), now).found
          /\ \E t2 \in Threads \ {t} :
               th[t2].pc = "fetching" /\ KeyOf(th[t2]) = KeyOf(h)
       THEN [h EXCEPT !.pc = "stale", !.op = "", !.entry = entries[KeyOf(h)]]
       ELSE AfterLookup(h)]
  /\ entries' = entries
  /\ HandlersUnchanged

\* variant of ReqReturn: the stale lookup answers from what the map held
\* for the key when the request missed
ReqReturnStaleAtMiss(t) ==
  LET h == th[t] IN
  /\ h.pc = "read"
  /\ h.in = "handleCachedEndpoint"
  /\ mu' = RUnlock(mu, t)
  /\ th' = [th EXCEPT ![t] =
       IF h.op = "GetStale"
       THEN IF h.entry.exists
            THEN Answering(h, "serving_stale_cache", h.entry.Body)
            ELSE Answering(h, "upstream_error", <<>>)
       ELSE AfterLookup(h)]
  /\ entries' = entries
  /\ HandlersUnchanged

\* Get or GetStale reads the entry and returns, releasing the read lock
ReqReturn(t) ==
  LET h == th[t] IN
  /\ h.pc = "read"
  /\ h.in = "handleCachedEndpoint"
  /\ mu' = RUnlock(mu, t)
  /\ th' = [th EXCEPT ![t] = AfterLookup(h)]
  /\ entries' = entries
  /\ HandlersUnchanged

\* populateCache: the first Fetch is called
ProbeStart(t) ==
  /\ th[t].pc = "idle"
  /\ th' = [th EXCEPT ![t] = [IdleThread EXCEPT !.pc = "fetching", !.op = "Fetch",
                                                !.in = "populateCache", !.idx = 1]]
  /\ UNCHANGED <<entries, mu>>
  /\ HandlersUnchanged

\* Fetch returns: after an error a document request goes on to GetStale
\* and a probe has its answer; a body that cannot be formatted ends both;
\* else the next call is Set
ReqFetched(t, u) ==
  LET h == th[t]
      f == Fetch(u)
      p == ProcessBody(f.body, config.PrettyPrintJSON) IN
  /\ h.pc = "fetching"
  /\ th' = [th EXCEPT ![t] =
       IF f.err
       THEN IF h.in = "populateCache" THEN Answering(h, "probe_failed", <<>>)
            ELSE [h EXCEPT !.pc = "stale", !.op = ""]
       ELSE IF p.err # ""
       THEN IF h.in = "populateCache" THEN Answering(h, "probe_failed", <<>>)
            ELSE Answering(h, p.err, <<>>)
       ELSE [h EXCEPT !.pc = "store", !.op = "", !.body = p.bytes]]
  /\ UNCHANGED <<entries, mu>>
  /\ HandlersUnchanged

\* a.cache.GetStale(path), up to the return of RLock
ReqStaleRLock(t) ==
  /\ th[t].pc = "stale"
  /\ CanRLock(mu)
  /\ mu' = RLock(mu, t)
  /\ th' = [th EXCEPT ![t].pc = "read", ![t].op = "GetStale"]
  /\ entries' = entries
  /\ HandlersUnchanged

\* a.cache.Set(path, processedBody), up to the return of Lock
ReqSetLock(t) ==
  /\ th[t].pc = "store"
  /\ CanLock(mu)
  /\ mu' = Lock(mu, t)
  /\ th' = [th EXCEPT ![t].pc = "write", ![t].op = "Set"]
  /\ entries' = entries
  /\ HandlersUnchanged

\* Set writes the entry and returns, releasing the lock; a document
\* request has its answer, populateCache goes on to the next path
ReqSetReturn(t) ==
  LET h == th[t] IN
  /\ h.pc = "write"
  /\ h.in # ""
  /\ entries' = Set(entries, KeyOf(h), h.body, now, GetCacheTTL(config))
  /\ mu' = Unlock(mu, t)
  /\ th' = [th EXCEPT ![t] =
       IF h.in = "populateCache"
       THEN IF h.idx < Len(paths)
            THEN [h EXCEPT !.pc = "fetching", !.op = "Fetch", !.body = <<>>,
                           !.idx = h.idx + 1]
            ELSE Answering(h, "probe_ok", <<>>)
       ELSE Answering(h, "upstream_fetch", h.body)]
  /\ HandlersUnchanged

\* the handlers that run the function goroutine h is in
HandlersOf(h) ==
  IF h.in = "populateCache" THEN ProbeHandlers
  ELSE IF KeyOf(h) = DiscoveryPath THEN {"HandleOIDCDiscovery"}
  ELSE {"HandleJWKS"}

\* variant of ResponseOf: the ETag of a document is computed from the
\* body the cache holds for the key when the response is written
ResponseOfTagsCache(h, handler) ==
  LET resp == writeJSONResponse(h.body, 200, config) IN
  IF h.op \in {"cache_hit", "serving_stale_cache", "upstream_fetch"}
  THEN [resp EXCEPT !.header.ETag =
          <<"\"">> \o Sha256Hex(entries[KeyOf(h)].Body) \o <<"\"">>]
  ELSE IF h.op \in {"upstream_error", "json_parse_error"}
  THEN HttpError("Bad Gateway", 502)
  ELSE IF h.op = "json_marshal_error"
  THEN HttpError("Internal Server Error", 500)
  ELSE IF h.op = "probe_ok" THEN ProbeOK
  ELSE HttpError(ProbeMsg(handler), 503)

\* the response goroutine h writes, from the bytes it holds
ResponseOf(h, handler) ==
  IF h.op \in {"cache_hit", "serving_stale_cache", "upstream_fetch"}
  THEN writeJSONResponse(h.body, 200, config)
  ELSE IF h.op \in {"upstream_error", "json_parse_error"}
  THEN HttpError("Bad Gateway", 502)
  ELSE IF h.op = "json_marshal_error"
  THEN HttpError("Internal Server Error", 500)
  ELSE IF h.op = "probe_ok" THEN ProbeOK
  ELSE HttpError(ProbeMsg(handler), 503)

\* the handler writes its response, ResponseOf, and returns
ReqRespond(t) ==
  /\ th[t].pc = "respond"
  /\ th' = [th EXCEPT ![t] = IdleThread]
  /\ UNCHANGED <<entries, mu>>
  /\ HandlersUnchanged

\* the serving process with an empty cache
InitHandlers ==
  /\ config \in [CacheTTLSeconds : TTLChoices, PrettyPrintJSON : {TRUE}]
  /\ upstreamClient = "set"
  /\ now = 0
  /\ entries = NewCache
  /\ req = [r \in Reqs |-> IdleReq]
  /\ out = IdleReq
  /\ lastSet = [k \in Keys |-> NoSet]
  /\ server = [pc |-> "serving", app |-> TRUE, routes |-> TRUE,
               listening |-> TRUE, exitCode |-> 0, deadline |-> 0]
  /\ files = FilesOK
  /\ mu = NoLock
  /\ th = [t \in Threads |-> IdleThread]
  /\ ret = NoRet
  /\ written = {}
  /\ lastLock = NoLastLock
  /\ env = NoEnv

NextHandlers ==
  \/ Tick
  \/ \E t \in Threads : ReqGetRLock(t)
  \/ \E t \in Threads : ReqReturn(t)
  \/ \E t \in Threads : ProbeStart(t)
  \/ \E t \in Threads : \E u \in UpstreamResponses(KeyOf(th[t])) : ReqFetched(t, u)
  \/ \E t \in Threads : ReqStaleRLock(t)
  \/ \E t \in Threads : ReqSetLock(t)
  \/ \E t \in Threads : ReqSetReturn(t)
  \/ \E t \in Threads : ReqRespond(t)

SpecHandlers == InitHandlers /\ [][NextHandlers]_vars

\* the serving process with PRETTY_PRINT_JSON=false, which stores every
\* body as the upstream sent it, so that one key is given different bodies
InitHandlersRaw ==
  /\ config = [CacheTTLSeconds |-> MaxTTL, PrettyPrintJSON |-> FALSE]
  /\ upstreamClient = "set"
  /\ now = 0
  /\ entries = NewCache
  /\ req = [r \in Reqs |-> IdleReq]
  /\ out = IdleReq
  /\ lastSet = [k \in Keys |-> NoSet]
  /\ server = [pc |-> "serving", app |-> TRUE, routes |-> TRUE,
               listening |-> TRUE, exitCode |-> 0, deadline |-> 0]
  /\ files = FilesOK
  /\ mu = NoLock
  /\ th = [t \in Threads |-> IdleThread]
  /\ ret = NoRet
  /\ written = {}
  /\ lastLock = NoLastLock
  /\ env = NoEnv

\* document requests only, all for the shared key
NextHandlersRaw ==
  \/ Tick
  \/ \E t \in Threads : ReqGetRLock(t)
  \/ \E t \in Threads : ReqReturn(t)
  \/ \E t \in Threads : \E u \in UpstreamResponses(KeyOf(th[t])) : ReqFetched(t, u)
  \/ \E t \in Threads : ReqStaleRLock(t)
  \/ \E t \in Threads : ReqSetLock(t)
  \/ \E t \in Threads : ReqSetReturn(t)
  \/ \E t \in Threads : ReqRespond(t)

SpecHandlersRaw == InitHandlersRaw /\ [][NextHandlersRaw]_vars

\* the variables of the serving process and of the cache callers
served ==
  <<upstreamClient, now, entries, req, out, lastSet, files, callers>>

\* os.Setenv before the process reads its configuration
Setenv(key, value) ==
  /\ server.pc = "LoadConfig"
  /\ env' = [env EXCEPT ![key] = Setting(value)]
  /\ UNCHANGED <<config, server, served>>

\* os.Clearenv
Clearenv ==
  /\ server.pc = "LoadConfig"
  /\ env' = NoEnv
  /\ UNCHANGED <<config, server, served>>

\* main before LoadConfig
ProcessBoot == [ProcessStart EXCEPT !.pc = "LoadConfig"]

\* main: config := gateway.LoadConfig()
MainLoadConfig ==
  /\ server.pc = "LoadConfig"
  /\ config' = LoadConfig(env)
  /\ server' = [server EXCEPT !.pc = "NewApp"]
  /\ UNCHANGED <<env, served>>

\* the process before it has read its configuration, in an environment
\* that is built up one variable at a time
InitConfig ==
  /\ config = ZeroConfig
  /\ upstreamClient = "nil"
  /\ now = 0
  /\ entries = NewCache
  /\ req = [r \in Reqs |-> IdleReq]
  /\ out = IdleReq
  /\ lastSet = [k \in Keys |-> NoSet]
  /\ server = ProcessBoot
  /\ files = FilesOK
  /\ mu = NoLock
  /\ th = [t \in Threads |-> IdleThread]
  /\ ret = NoRet
  /\ written = {}
  /\ lastLock = NoLastLock
  /\ env = NoEnv

NextConfig ==
  \/ \E key \in EnvNames, value \in EnvValues : Setenv(key, value)
  \/ Clearenv
  \/ MainLoadConfig

SpecConfig == InitConfig /\ [][NextConfig]_vars

(***************************************************************************)
(* Shutdown: main waits in a select for an error of ListenAndServe or for  *)
(* a signal; after a signal it calls server.Shutdown with a deadline, and  *)
(* server.Close when Shutdown returns an error.  Closing the listeners is  *)
(* taken to succeed.                                                       *)
(***************************************************************************)
\* context.WithTimeout(context.Background(), 30*time.Second), in clock
\* units
ShutdownTimeout == 1

\* no handler is running
AllIdle == \A r \in Reqs : req[r].pc = "idle"

\* variant of Shutdown: returns at once, whatever the handlers are doing
ShutdownAbrupt(idle, t, deadline) == "nil"

\* http.Server.Shutdown(ctx), once the listeners are closed: nil when no
\* connection is active, ctx.Err() when the deadline has come first, and
\* else it waits
Shutdown(idle, t, deadline) ==
  IF idle THEN "nil"
  ELSE IF t >= deadline THEN "context deadline exceeded"
  ELSE "waiting"

\* the process ends: its goroutines end with it, and the connections of
\* the requests in progress are closed without a response
ProcessExit(code) ==
  /\ server' = [server EXCEPT !.pc = "exited", !.exitCode = code,
                              !.listening = FALSE]
  /\ req' = [r \in Reqs |-> IdleReq]
  /\ UNCHANGED <<config, upstreamClient, now, entries, out, lastSet, files,
                 callers, env>>

\* case err := <-serverErrors: os.Exit(1)
MainServerError ==
  /\ server.pc = "serving"
  /\ ProcessExit(1)

\* case sig := <-shutdown: Shutdown is called, which stops the listeners
MainSignal ==
  /\ server.pc = "serving"
  /\ server' = [server EXCEPT !.pc = "shutdown", !.listening = FALSE,
                              !.deadline = now + ShutdownTimeout]
  /\ UNCHANGED <<config, upstreamClient, now, entries, req, out, lastSet,
                 files, callers, env>>

\* Shutdown returns nil: "Graceful shutdown completed", main returns
MainShutdownCompleted ==
  /\ server.pc = "shutdown"
  /\ Shutdown(AllIdle, now, server.deadline) = "nil"
  /\ ProcessExit(0)

\* Shutdown returns an error: server.Close() and os.Exit(1)
MainShutdownFailed ==
  /\ server.pc = "shutdown"
  /\ Shutdown(AllIdle, now, server.deadline) \notin {"nil", "waiting"}
  /\ ProcessExit(1)

\* the process main starts with its files in place and the default
\* formatting
InitShutdown ==
  /\ Init
  /\ server = ProcessStart
  /\ files = FilesOK
  /\ config.PrettyPrintJSON

NextShutdown ==
  \/ Next
  \/ MainServerError
  \/ MainSignal
  \/ MainShutdownCompleted
  \/ MainShutdownFailed

SpecShutdown == InitShutdown /\ [][NextShutdown]_vars

(***************************************************************************)
(* Kinds of step                                                           *)
(***************************************************************************)
\* a request that was waiting for the upstream finishes in this step;
\* out' is that request
FetchReturned == \E r \in Reqs : req[r].pc = "fetching" /\ req'[r].pc = "idle"

\* a request arrives and finishes in this one step; out' is that request
AnsweredAtOnce == req' = req /\ now' = now /\ server' = server

\* a request arrives in this step and goes on to call Fetch for path k
MissedAndFetches(k) ==
  \E r \in Reqs : /\ req[r].pc = "idle"
                  /\ req'[r].pc = "fetching"
                  /\ req'[r].handler \in DocHandlers
                  /\ req'[r].path = k

Expired(k) == entries[k].exists /\ now > entries[k].ExpiresAt

TTL == config.CacheTTLSeconds

C2_FailClosed ==
  [][ (FetchReturned /\ out'.handler \in DocHandlers /\ out'.fetchErr
       /\ ~lastSet[out'.path].called)
      => (out'.resp.status = 502
          /\ ~entries'[out'.path].exists
          /\ ~lastSet'[out'.path].called) ]_vars

C2_Witness ==
  /\ out.handler \in DocHandlers
  /\ out.fetchErr
  /\ ~lastSet[out.path].called
  /\ ~entries[out.path].exists
  /\ out.resp.status = 502

(***************************************************************************)
(* C3  Freshness: in every state and for every key, Get reports found      *)
(* exactly when the key has an entry and now is not after its ExpiresAt    *)
(* (an entry read at exactly ExpiresAt is fresh), and what it returns is   *)
(* that entry's body; a document request is answered from the cache        *)
(* exactly in those states.                                                *)
(***************************************************************************)
FreshInv ==
  \A k \in Keys :
    LET g == Get(entries, k, now) IN
    /\ g.found <=> (entries[k].exists /\ now <= entries[k].ExpiresAt)
    /\ g.found => g.body = entries[k].Body /\ ~(entries[k].ExpiresAt < now)

C3_Freshness ==
  /\ []FreshInv
  /\ [][ /\ (AnsweredAtOnce /\ out'.outcome = "cache_hit")
              => (entries[out'.path].exists
                  /\ now <= entries[out'.path].ExpiresAt
                  /\ out'.resp.body = entries[out'.path].Body)
         /\ \A k \in Keys :
              MissedAndFetches(k)
                => ~(entries[k].exists /\ now <= entries[k].ExpiresAt) ]_vars

\* a request is answered from an entry read at exactly its ExpiresAt
C3_Witness ==
  /\ out.outcome = "cache_hit"
  /\ entries[out.path].exists
  /\ now = entries[out.path].ExpiresAt
  /\ TTL > 0
  /\ out.resp.body = entries[out.path].Body

(***************************************************************************)
(* C4  Staleness completeness: in every state and for every key,           *)
(* GetStale reports found exactly when Set was ever called for the key,    *)
(* and then returns the body of the latest Set, however far the clock is   *)
(* past the entry's expiry.                                                *)
(***************************************************************************)
C4_StaleComplete ==
  \A k \in Keys :
    LET g == GetStale(entries, k) IN
    /\ g.found <=> lastSet[k].called
    /\ lastSet[k].called => g.body = lastSet[k].body

\* an entry two clock units past its expiry is still returned
C4_Witness ==
  \E k \in Keys :
    /\ lastSet[k].called
    /\ now > entries[k].ExpiresAt + 1
    /\ ~Get(entries, k, now).found
    /\ GetStale(entries, k).found
    /\ GetStale(entries, k).body = lastSet[k].body

(***************************************************************************)
(* C5  Set replaces: after Set(k, b) at time t the entry of k is exactly   *)
(* (b, t + ttl), whatever k held before, and as long as no other Set       *)
(* follows, Get(k) returns b at every time in [t, t + ttl].                *)
(***************************************************************************)
C5_SetReplaces ==
  \A k \in Keys :
    lastSet[k].called =>
      /\ entries[k] = CacheEntry(lastSet[k].body, lastSet[k].at + TTL)
      /\ (lastSet[k].at <= now /\ now <= lastSet[k].at + TTL)
           => Get(entries, k, now) = [found |-> TRUE, body |-> lastSet[k].body]

\* Get at the last instant of the interval, t + ttl
C5_Witness ==
  \E k \in Keys :
    /\ lastSet[k].called
    /\ TTL > 0
    /\ now = lastSet[k].at + TTL
    /\ Get(entries, k, now) = [found |-> TRUE, body |-> lastSet[k].body]

(***************************************************************************)
(* C6  Fresh hit: a GET for a document key whose entry is fresh is         *)
(* answered at once with 200 and exactly the cached bytes; it calls        *)
(* neither Fetch nor Set and leaves the cache as it was.                   *)
(***************************************************************************)
Fresh(k) == entries[k].exists /\ now <= entries[k].ExpiresAt

C6_FreshHit ==
  [][ \A k \in Keys :
        Fresh(k) =>
          /\ ~MissedAndFetches(k)
          /\ (AnsweredAtOnce /\ out'.handler \in DocHandlers
              /\ out'.method = "GET" /\ out'.path = k)
               => /\ out'.resp.status = 200
                  /\ out'.resp.body = entries[k].Body
                  /\ out'.fetches = 0
                  /\ out'.writes = 0
                  /\ entries' = entries ]_vars

C6_Witness ==
  /\ out.handler \in DocHandlers
  /\ out.method = "GET"
  /\ out.outcome = "cache_hit"
  /\ Fresh(out.path)
  /\ out.resp.status = 200
  /\ out.resp.body = entries[out.path].Body
  /\ out.fetches = 0
  /\ out.writes = 0

(***************************************************************************)
(* C7  Miss, then successful fetch: when a document request's fetch and    *)
(* formatting succeed, the formatted bytes are stored for the key and the  *)
(* same bytes are returned with 200; the next GET for that key within the  *)
(* TTL is answered with the identical body and ETag and calls no Fetch.    *)
(***************************************************************************)
\* the request in out stored the entry of k, no Set for k came after it,
\* and the TTL has not run out
StoredByOut(k) ==
  /\ out.outcome = "upstream_fetch"
  /\ out.path = k
  /\ lastSet[k].byOut
  /\ now <= lastSet[k].at + TTL

C7_MissThenFetch ==
  [][ /\ (FetchReturned /\ out'.handler \in DocHandlers /\ ~out'.fetchErr
          /\ ProcessBody(out'.fetched, config.PrettyPrintJSON).err = "")
           => LET b == ProcessBody(out'.fetched, config.PrettyPrintJSON).bytes IN
              /\ out'.resp.status = 200
              /\ out'.resp.body = b
              /\ entries'[out'.path].exists
              /\ entries'[out'.path].Body = b
      /\ \A k \in Keys :
           StoredByOut(k) =>
             /\ ~MissedAndFetches(k)
             /\ (AnsweredAtOnce /\ out'.handler \in DocHandlers
                 /\ out'.method = "GET" /\ out'.path = k)
                  => /\ out'.resp.status = 200
                     /\ out'.resp.body = out.resp.body
                     /\ out'.resp.header.ETag = out.resp.header.ETag
                     /\ out'.fetches = 0 ]_vars

\* pretty-printing changed the fetched bytes, and the changed bytes are
\* what is stored and returned
C7_Witness ==
  /\ out.handler \in DocHandlers
  /\ out.outcome = "upstream_fetch"
  /\ ~out.fetchErr
  /\ config.PrettyPrintJSON
  /\ out.resp.status = 200
  /\ out.resp.body # out.fetched
  /\ out.resp.body = ProcessBody(out.fetched, TRUE).bytes
  /\ entries[out.path].Body = out.resp.body
  /\ StoredByOut(out.path)

(***************************************************************************)
(* C8  Method gate: a request to the discovery, JWKS, healthz or readyz    *)
(* handler with a method other than GET is answered 405 at once, whatever  *)
(* the cache holds, with no Get/GetStale, no Set and no Fetch.             *)
(***************************************************************************)
C8_MethodGate ==
  [][ /\ ((AnsweredAtOnce \/ FetchReturned)
          /\ out'.handler \in DocHandlers \cup ProbeHandlers
          /\ out'.method # "GET")
           => /\ AnsweredAtOnce
              /\ out'.resp.status = 405
              /\ out'.reads = 0
              /\ out'.writes = 0
              /\ out'.fetches = 0
              /\ entries' = entries
      /\ \A r \in Reqs : req'[r].pc = "fetching" => req'[r].method = "GET" ]_vars

\* a 405 while the cache holds an entry
C8_Witness ==
  /\ out.handler \in DocHandlers \cup ProbeHandlers
  /\ out.method = "POST"
  /\ out.resp.status = 405
  /\ out.reads = 0 /\ out.writes = 0 /\ out.fetches = 0
  /\ \E k \in Keys : entries[k].exists

DocOK(q) == q.handler \in DocHandlers /\ q.resp.status = 200

Quoted(tag) == <<"\"">> \o tag \o <<"\"">>

C11_TagDeterminism ==
  /\ [](DocOK(out) => out.resp.header.ETag = Quoted(Sha256Hex(out.resp.body)))
  /\ [][ (DocOK(out) /\ DocOK(out') /\ out'.resp.body = out.resp.body)
           => out'.resp.header.ETag = out.resp.header.ETag ]_vars

\* a stale serve, later than the Set that stored the bytes, carries the
\* tag of those bytes
C11_Witness ==
  /\ DocOK(out)
  /\ out.outcome = "serving_stale_cache"
  /\ lastSet[out.path].called
  /\ lastSet[out.path].at < now
  /\ out.resp.body = lastSet[out.path].body
  /\ out.resp.header.ETag = Quoted(Sha256Hex(lastSet[out.path].body))

(***************************************************************************)
(* C12  Stale serving is transparent: every 200 document response (fresh   *)
(* hit, after a fetch, or stale serve) has Content-Type application/json,  *)
(* Cache-Control max-age = the configured TTL seconds and an ETag, and two *)
(* such responses differ in status or headers only by the ETag of          *)
(* different bodies.                                                       *)
(***************************************************************************)
C12_StaleTransparent ==
  /\ [](DocOK(out) =>
          /\ out.outcome \in {"cache_hit", "upstream_fetch", "serving_stale_cache"}
          /\ out.resp.header.ContentType = "application/json"
          /\ out.resp.header.CacheControl = <<"max-age=", config.CacheTTLSeconds>>
          /\ out.resp.header.ETag # <<>>)
  /\ [][ (DocOK(out) /\ DocOK(out')) =>
           /\ out'.resp.status = out.resp.status
           /\ out'.resp.header.ContentType = out.resp.header.ContentType
           /\ out'.resp.header.CacheControl = out.resp.header.CacheControl
           /\ out'.resp.body = out.resp.body => out'.resp = out.resp ]_vars

\* a stale serve with a non-zero max-age
C12_Witness ==
  /\ DocOK(out)
  /\ out.outcome = "serving_stale_cache"
  /\ Expired(out.path)
  /\ TTL > 0
  /\ out.resp.header =
       [ContentType |-> "application/json",
        CacheControl |-> <<"max-age=", TTL>>,
        ETag |-> Quoted(Sha256Hex(entries[out.path].Body))]

(***************************************************************************)
(* C13  Size ceiling: when the body of the upstream response is longer     *)
(* than MaxResponseSize, Fetch reports an error, so that the request ends  *)
(* as a failed fetch does: no body is handed on, and the outcome is a      *)
(* stale serve, a 502 or a failed probe, never a stored and served body.   *)
(***************************************************************************)
C13_SizeCeiling ==
  (out.pc = "done" /\ Len(out.upstream.Body) > MaxResponseSize) =>
    /\ out.fetchErr
    /\ out.fetched = <<>>
    /\ out.outcome \in {"serving_stale_cache", "upstream_error", "probe_failed"}

(***************************************************************************)
(* C14  Formatting failure: with pretty-print on, a document request       *)
(* whose fetch succeeded is answered 502 when the body does not parse as   *)
(* JSON and 500 when the parsed value cannot be serialised again; in both  *)
(* cases it calls no Set and the cache stays as it was.                    *)
(***************************************************************************)
C14_FormatFailure ==
  [][ (FetchReturned /\ out'.handler \in DocHandlers /\ ~out'.fetchErr
       /\ config.PrettyPrintJSON)
      => LET jsonData == Unmarshal(out'.fetched) IN
         /\ ~jsonData.ok
              => /\ out'.resp.status = 502
                 /\ out'.writes = 0
                 /\ entries' = entries
         /\ (jsonData.ok /\ ~MarshalIndent(jsonData.val).ok)
              => /\ out'.resp.status = 500
                 /\ out'.writes = 0
                 /\ entries' = entries ]_vars

\* a 502 for bytes that are no JSON, with the key's expired entry left as
\* its Set wrote it
C14_Witness ==
  /\ out.handler \in DocHandlers
  /\ config.PrettyPrintJSON
  /\ ~out.fetchErr
  /\ ~Unmarshal(out.fetched).ok
  /\ out.resp.status = 502
  /\ out.writes = 0
  /\ Expired(out.path)
  /\ entries[out.path] = CacheEntry(lastSet[out.path].body, lastSet[out.path].at + TTL)

(***************************************************************************)
(* C15  Every class of upstream fault (connection failure, non-success     *)
(* status, malformed JSON, size limit exceeded) leads to the stale         *)
(* attempt: if the key has an entry the answer is 200 with the entry's     *)
(* bytes, and 502 is answered only when the key has no entry.              *)
(***************************************************************************)
\* malformed JSON counts where the gateway parses the body, that is with
\* pretty-print on
UpstreamFault(u) ==
  \/ u.transportErr
  \/ u.StatusCode # 200
  \/ config.PrettyPrintJSON /\ ~Unmarshal(u.Body).ok
  \/ Len(u.Body) > MaxResponseSize

C15_EveryFaultServesStale ==
  [][ (FetchReturned /\ out'.handler \in DocHandlers
       /\ UpstreamFault(out'.upstream))
      => /\ entries[out'.path].exists
              => /\ out'.resp.status = 200
                 /\ out'.resp.body = entries[out'.path].Body
         /\ out'.resp.status = 502 => ~entries[out'.path].exists ]_vars

(***************************************************************************)
(* C16  Cache thread-safety: however concurrent Get, GetStale and Set      *)
(* calls interleave, what a Get or GetStale reads and returns is nothing   *)
(* or the complete entry (body and expiry) that one single Set wrote, and  *)
(* whenever no Set is at work the entry is the one written by the Set      *)
(* that took the write lock last.                                          *)
(***************************************************************************)
\* goroutine t is in Set, between Lock and Unlock
InSet(t) == th[t].op = "Set" /\ th[t].pc \in {"write", "unlock"}

C16_ThreadSafe ==
  /\ \A t \in Threads :
       th[t].pc = "return" => th[t].entry \in written \cup {NoEntry}
  /\ ret.found => ret.entry \in written /\ ret.body = ret.entry.Body
  /\ (lastLock.called /\ \A t \in Threads : ~InSet(t))
       => entries[SharedKey] = lastLock.entry

\* after Sets with different bodies and different expiries, a Get has
\* returned the entry of the Set that locked last while another reader
\* holds the read lock on it
C16_Witness ==
  /\ \E e1, e2 \in written : e1.Body # e2.Body /\ e1.ExpiresAt # e2.ExpiresAt
  /\ ret.op = "Get"
  /\ ret.found
  /\ ret.entry = lastLock.entry
  /\ \E t \in Threads :
       /\ th[t].pc = "return"
       /\ th[t].entry = entries[SharedKey]
       /\ th[t].entry = ret.entry

(***************************************************************************)
(* C17  Closed key set: in every state only the two document paths have a  *)
(* cache entry, every Fetch in progress or finished is for one of the two  *)
(* document paths, and that path is fixed by the handler (and, in a probe, *)
(* by the position in paths), not by anything in the request.              *)
(***************************************************************************)
\* the path handler q fetches; idx is the probe's position in paths
UpstreamPathOf(q) ==
  IF q.handler = "HandleOIDCDiscovery" THEN DiscoveryPath
  ELSE IF q.handler = "HandleJWKS" THEN JWKSPath
  ELSE IF q.handler \in ProbeHandlers /\ q.idx \in 1..Len(paths) THEN paths[q.idx]
  ELSE ""

C17_ClosedKeys ==
  /\ \A k \in DOMAIN entries : entries[k].exists => k \in Keys
  /\ \A r \in Reqs :
       req[r].pc = "fetching"
         => req[r].path \in Keys /\ req[r].path = UpstreamPathOf(req[r])
  /\ out.fetches > 0
       => out.path \in Keys /\ out.path = UpstreamPathOf(out)

\* a request for a path under the JWKS path was answered, a fetch for the
\* JWKS document is in progress, and only document paths have entries
C17_Witness ==
  /\ out.pc = "done"
  /\ out.method = "GET"
  /\ out.urlPath = "/openid/v1/jwks/"
  /\ out.fetches = 0
  /\ entries[DiscoveryPath].exists
  /\ \A k \in DOMAIN entries : entries[k].exists => k \in Keys
  /\ \E r \in Reqs : req[r].pc = "fetching" /\ req[r].path = JWKSPath

(***************************************************************************)
(* C18  A probe stores what a client-triggered miss stores: for the same   *)
(* upstream response and the same pretty-print setting, the entry a probe  *)
(* writes and the entry a document request writes after a miss hold the    *)
(* same bytes, and a document request answered from the entry a probe      *)
(* wrote gets the very response (body, ETag) a miss would have returned.   *)
(***************************************************************************)
\* the bytes a document request stores after a miss answered with u
StoredFor(u) == ProcessBody(Fetch(u).body, config.PrettyPrintJSON).bytes

\* the request in out is a successful probe, its Set of the JWKS entry
\* is the latest one, and the TTL has not run out
ProbeStoredJWKS ==
  /\ out.outcome = "probe_ok"
  /\ lastSet[JWKSPath].byOut
  /\ now <= lastSet[JWKSPath].at + TTL

ProbeArrives(r) ==
  /\ req[r].pc = "idle"
  /\ req'[r].pc # "idle"
  /\ req'[r].handler \in ProbeHandlers

BadCredentials(f) ==
  f.token = "unreadable" \/ f.ca \in {"unreadable", "unparsable"}

Exited ==
  [pc |-> "exited", app |-> FALSE, routes |-> FALSE, listening |-> FALSE,
   exitCode |-> 1, deadline |-> 0]

C21_RawIdentity ==
  [][ (FetchReturned /\ out'.handler \in DocHandlers /\ ~out'.fetchErr
       /\ ~config.PrettyPrintJSON)
      => /\ out'.resp.status = 200
         /\ out'.outcome = "upstream_fetch"
         /\ out'.resp.body = out'.upstream.Body
         /\ entries'[out'.path].Body = out'.upstream.Body ]_vars

(***************************************************************************)
(* C22  Readiness latches on the first success: GET /readyz is answered    *)
(* 503 as long as no upstream fetch has succeeded, and once a fetch has    *)
(* succeeded (its Set has been made) every later GET /readyz is answered   *)
(* 200.                                                                    *)
(***************************************************************************)
C22_ReadinessLatches ==
  [][ ((AnsweredAtOnce \/ FetchReturned)
       /\ out'.handler = "HandleReadyz" /\ out'.method = "GET")
      => /\ lastSet[JWKSPath].called => out'.resp.status = 200
         /\ (\A k \in Keys : ~lastSet'[k].called) => out'.resp.status = 503
    ]_vars

(***************************************************************************)
(* C23  Liveness is unconditional: while the process serves, every GET     *)
(* /healthz is answered 200 with body OK, whatever the upstream does and   *)
(* whatever the cache holds.                                               *)
(***************************************************************************)
C23_LivenessUnconditional ==
  (server.pc = "serving" /\ out.pc = "done" /\ out.handler = "HandleHealthz"
   /\ out.method = "GET")
    => out.resp = ProbeOK

(***************************************************************************)
(* C24  Configuration fallback: LoadConfig gives the upstream timeout, the *)
(* cache TTL and the pretty-print setting their defaults (5, 60, true)     *)
(* when the variable is unset, empty or does not parse, and the parsed     *)
(* value otherwise, zero and negative integers included.                   *)
(***************************************************************************)
\* the configuration has been loaded from env
Loaded == server.pc = "NewApp"

\* what the claim says an integer setting is, given its variable
IntSetting(key, default) ==
  IF ~env[key].set \/ env[key].value = <<>> \/ ~Atoi(env[key].value).ok
  THEN default
  ELSE Atoi(env[key].value).n

C24_ConfigFallback ==
  Loaded =>
    /\ config.UpstreamTimeoutSeconds = IntSetting("UPSTREAM_TIMEOUT_SECONDS", 5)
    /\ config.CacheTTLSeconds = IntSetting("CACHE_TTL_SECONDS", 60)
    /\ config.PrettyPrintJSON =
         IF ~env["PRETTY_PRINT_JSON"].set
            \/ env["PRETTY_PRINT_JSON"].value = <<>>
            \/ ~ParseBool(env["PRETTY_PRINT_JSON"].value).ok
         THEN TRUE
         ELSE ParseBool(env["PRETTY_PRINT_JSON"].value).b
    /\ env["CACHE_TTL_SECONDS"] = Setting(<<"0">>) => config.CacheTTLSeconds = 0
    /\ env["CACHE_TTL_SECONDS"] = Setting(<<"-", "1">>)
         => config.CacheTTLSeconds = 0 - 1
    /\ env["CACHE_TTL_SECONDS"] \in {Unset, Setting(<<>>), Setting(<<"1", "x">>),
                                     Setting(<<"-">>), Setting(<<"y", "e", "s">>)}
         => config.CacheTTLSeconds = 60
    /\ env["UPSTREAM_TIMEOUT_SECONDS"] = Setting(<<"+", "7">>)
         => config.UpstreamTimeoutSeconds = 7
    /\ env["PRETTY_PRINT_JSON"] = Setting(<<"F", "A", "L", "S", "E">>)
         => ~config.PrettyPrintJSON
    /\ env["PRETTY_PRINT_JSON"] \in {Unset, Setting(<<>>), Setting(<<"y", "e", "s">>),
                                     Setting(<<"+", "7">>)}
         => config.PrettyPrintJSON

\* a TTL of zero and a negative timeout are taken as given, next to a
\* pretty-print value that does not parse
C24_Witness ==
  /\ Loaded
  /\ env["CACHE_TTL_SECONDS"] = Setting(<<"0">>)
  /\ env["UPSTREAM_TIMEOUT_SECONDS"] = Setting(<<"-", "1">>)
  /\ env["PRETTY_PRINT_JSON"] = Setting(<<"y", "e", "s">>)
  /\ config = [UpstreamTimeoutSeconds |-> 0 - 1, CacheTTLSeconds |-> 0,
               PrettyPrintJSON |-> TRUE]

(***************************************************************************)
(* C25  No cache lock is held across an upstream call: a request or probe  *)
(* with a fetch in flight holds neither the read lock nor the write lock;  *)
(* the mutex is held only by goroutines inside Get, GetStale or Set, so    *)
(* when every goroutine is in a fetch or between calls the mutex is free   *)
(* and a hung upstream blocks no other request's cache call.               *)
(***************************************************************************)
\* goroutine t holds the mutex
Holds(t) == t \in mu.readers \/ mu.writer = t

C25_NoLockAcrossFetch ==
  /\ \A t \in Threads : th[t].pc = "fetching" => ~Holds(t)
  /\ \A t \in Threads : Holds(t) => th[t].pc \in {"read", "write"}
  /\ (\A t \in Threads :
        th[t].pc \in {"idle", "fetching", "stale", "store", "respond"})
       => CanLock(mu) /\ CanRLock(mu)

\* while one request waits for the upstream, another one holds the write
\* lock inside Set, and so has passed Get before
C25_Witness ==
  \E t1, t2 \in Threads :
    /\ th[t1].pc = "fetching"
    /\ th[t1].in = "handleCachedEndpoint"
    /\ th[t2].pc = "write"
    /\ mu.writer = t2

(***************************************************************************)
(* C26  No single-flight: every document request that misses issues its    *)
(* own fetch, whatever the other requests are doing, so all the requests   *)
(* in progress can have a fetch for the same key in flight at once; and    *)
(* every request whose fetch succeeded goes on to its own Set, which       *)
(* writes its own body.                                                    *)
(***************************************************************************)
\* goroutine t is a document request with a fetch for the shared key in
\* flight
FetchingShared(t) ==
  /\ th[t].pc = "fetching"
  /\ th[t].in = "handleCachedEndpoint"
  /\ KeyOf(th[t]) = SharedKey

C26_NoSingleFlight ==
  [][ \A t \in Threads :
        /\ (th[t].pc = "read" /\ th[t].op = "Get" /\ th'[t] # th[t]
            /\ ~Get(entries, SharedKey, now).found)
             => FetchingShared(t)'
        /\ (th[t].pc = "read" /\ th[t].op = "Get" /\ th'[t] # th[t]
            /\ Get(entries, SharedKey, now).found)
             => th'[t].pc = "respond" /\ th'[t].op = "cache_hit"
        /\ (th[t].pc = "store" /\ th'[t] # th[t])
             => th'[t] = [th[t] EXCEPT !.pc = "write", !.op = "Set"]
        /\ (th[t].pc = "write" /\ th'[t] # th[t])
             => entries'[KeyOf(th[t])] =
                  CacheEntry(th[t].body, now + config.CacheTTLSeconds)
    ]_vars

\* every goroutine is a document request with a fetch for the same key in
\* flight, and none has stored anything
C26_Witness ==
  /\ \A t \in Threads : FetchingShared(t)
  /\ ~entries[SharedKey].exists

(***************************************************************************)
(* C27  No retry inside a request: a document request calls Fetch at most  *)
(* once (not at all on a fresh hit, exactly once on a miss), a probe calls *)
(* Fetch at most once for each key, in the order of paths, and a request   *)
(* whose fetch failed answers without fetching again.                      *)
(***************************************************************************)
C27_NoRetry ==
  /\ [](/\ out.handler \in DocHandlers
             => /\ out.fetches <= 1
                /\ out.outcome = "cache_hit" => out.fetches = 0
                /\ (out.pc = "done" /\ out.method = "GET"
                    /\ out.outcome # "cache_hit") => out.fetches = 1
        /\ out.handler \in ProbeHandlers
             => out.fetches <= Len(paths) /\ out.fetches = out.idx
        /\ \A r \in Reqs :
             req[r].pc = "fetching"
               => /\ req[r].handler \in DocHandlers => req[r].fetches = 1
                  /\ req[r].handler \in ProbeHandlers
                       => /\ req[r].fetches = req[r].idx
                          /\ req[r].idx \in 1..Len(paths)
                          /\ req[r].path = paths[req[r].idx])
  /\ [][ /\ \A r \in Reqs :
              (req[r].pc = "fetching" /\ req'[r].pc = "fetching"
               /\ req'[r] # req[r])
                => /\ req[r].handler \in ProbeHandlers
                   /\ ~req'[r].fetchErr
                   /\ req'[r].idx = req[r].idx + 1
                   /\ req'[r].writes = req[r].writes + 1
         /\ (FetchReturned /\ out'.fetchErr)
              => \E r \in Reqs : /\ req[r].pc = "fetching"
                                 /\ req'[r].pc = "idle"
                                 /\ out'.fetches = req[r].fetches
                                 /\ out'.path = req[r].path ]_vars

\* a document request whose one fetch failed has answered 502, and a probe
\* is at its second fetch
C27_Witness ==
  /\ out.handler \in DocHandlers
  /\ out.fetchErr
  /\ out.fetches = 1
  /\ out.resp.status = 502
  /\ \E r \in Reqs : /\ req[r].pc = "fetching"
                      /\ req[r].handler \in ProbeHandlers
                      /\ req[r].fetches = 2

(***************************************************************************)
(* C28  Entries are never deleted: a key that has an entry has one in      *)
(* every later state; an entry changes only by being replaced by the       *)
(* entry of a Set for its key, and the passing of time, expiry included,   *)
(* changes no entry.                                                       *)
(***************************************************************************)
C28_NeverDeleted ==
  [][ /\ \A k \in DOMAIN entries :
           /\ entries[k].exists => entries'[k].exists
           /\ entries'[k] # entries[k]
                => /\ k \in Keys
                   /\ lastSet'[k].called
                   /\ lastSet'[k].at = now
                   /\ entries'[k] = CacheEntry(lastSet'[k].body, now + TTL)
      /\ now' # now => entries' = entries ]_vars

\* both keys hold entries that have expired, one of them written after
\* the other had expired, and a request has just missed on one of them
C28_Witness ==
  /\ \A k \in Keys : Expired(k)
  /\ \E k1, k2 \in Keys : lastSet[k1].at > entries[k2].ExpiresAt
  /\ \E r \in Reqs : /\ req[r].pc = "fetching"
                      /\ req[r].handler \in DocHandlers
                      /\ Expired(req[r].path)

(***************************************************************************)
(* C29  Cancellation propagates: the fetch of a document request runs      *)
(* under that request's context, so when the client disconnects while the  *)
(* fetch is in flight the fetch ends as a failure and nothing from it is   *)
(* stored; the fetches of a probe run under a context of their own and go  *)
(* on, and can succeed and store, after the client has disconnected.       *)
(***************************************************************************)
C29_CancelPropagates ==
  [][ (FetchReturned /\ out'.handler \in DocHandlers /\ out'.gone > 0)
        => /\ out'.fetchErr
           /\ out'.fetched = <<>>
           /\ out'.writes = 0
           /\ out'.outcome \in {"serving_stale_cache", "upstream_error"}
           /\ entries' = entries
           /\ \A k \in Keys : ~lastSet'[k].byOut ]_vars

\* a document request whose client went away during its fetch has ended
\* as a failed fetch, with the upstream down at no point, and a probe
\* whose client went away during its first fetch has stored the first
\* document and is at its second fetch
C29_Witness ==
  /\ out.handler \in DocHandlers
  /\ out.gone = 1
  /\ out.fetchErr
  /\ out.writes = 0
  /\ \E r \in Reqs : /\ req[r].pc = "fetching"
                      /\ req[r].handler \in ProbeHandlers
                      /\ req[r].gone = 1
                      /\ req[r].idx = 2
                      /\ req[r].writes = 1

(***************************************************************************)
(* C30  Every request ends with exactly one response: given that every     *)
(* upstream call returns or fails, a document request ends with one of     *)
(* 200, 405, 500, 502 and a probe with one of 200, 405, 503; the only      *)
(* place a request waits is its call of Fetch, and every request that      *)
(* waits there gets its answer.                                            *)
(***************************************************************************)
\* the request in out has got its one response, of a status its handler
\* can give
OneResponse ==
  /\ out.pc \in {"idle", "done"}
  /\ (out.pc = "done" /\ out.handler \in DocHandlers)
       => out.resp.status \in {200, 405, 500, 502}
  /\ (out.pc = "done" /\ out.handler \in ProbeHandlers)
       => out.resp.status \in {200, 405, 503}

C30_Terminates ==
  /\ [](OneResponse /\ \A r \in Reqs : req[r].pc \in {"idle", "fetching"})
  /\ \A r \in Reqs : (req[r].pc = "fetching") ~> (req[r].pc = "idle")

\* a document request that waited for the upstream has got its 502 for a
\* body that is no JSON, and no request is waiting
C30_Witness ==
  /\ out.pc = "done"
  /\ out.handler \in DocHandlers
  /\ out.fetches = 1
  /\ out.outcome = "json_parse_error"
  /\ out.resp.status = 502
  /\ \A r \in Reqs : req[r].pc = "idle"

(***************************************************************************)
(* C31  Idempotent formatting: with pretty-printing on, every stored body  *)
(* is the formatter's own output and formats to itself without error, so   *)
(* a fetch whose bytes format to the bytes the key already holds stores a  *)
(* byte-identical body; and a document request that fetches the same       *)
(* upstream bytes as the request before it gives the same body and ETag.   *)
(***************************************************************************)
\* b is bytes the formatter leaves as they are
Canonical(b) ==
  ProcessBody(b, TRUE) = [err |-> "", bytes |-> b]

\* the request in out fetched, formatted, stored and returned
Refetched(q) ==
  /\ q.pc = "done"
  /\ q.handler \in DocHandlers
  /\ q.outcome = "upstream_fetch"

C31_IdempotentFormat ==
  /\ [](config.PrettyPrintJSON =>
          /\ \A k \in Keys : entries[k].exists => Canonical(entries[k].Body)
          /\ Refetched(out) => Canonical(out.resp.body))
  /\ [][ /\ \A k \in Keys :
              (config.PrettyPrintJSON /\ entries[k].exists
               /\ lastSet'[k] # lastSet[k] /\ lastSet'[k].at = now
               /\ \E r \in Reqs :
                    /\ req[r].pc = "fetching"
                    /\ req[r].path = k
                    /\ req'[r] # req[r]
                    /\ LET f == IF req'[r].pc = "idle" THEN out'.fetched
                                ELSE req'[r].fetched IN
                       ProcessBody(f, TRUE).bytes = entries[k].Body)
                => entries'[k].Body = entries[k].Body
         /\ (FetchReturned /\ Refetched(out) /\ Refetched(out')
             /\ out'.path = out.path
             /\ out'.upstream.Body = out.upstream.Body)
              => /\ out'.resp.body = out.resp.body
                 /\ out'.resp.header.ETag = out.resp.header.ETag
                 /\ entries'[out'.path].Body = out.resp.body ]_vars

\* a document request has stored the formatted discovery document, which
\* differs from the bytes fetched, and a probe that fetched the document
\* again has stored the same bytes over it
C31_Witness ==
  /\ config.PrettyPrintJSON
  /\ Refetched(out)
  /\ out.path = DiscoveryPath
  /\ out.resp.body # out.fetched
  /\ Canonical(out.resp.body)
  /\ \E r \in Reqs : /\ req[r].pc = "fetching"
                      /\ req[r].handler \in ProbeHandlers
                      /\ req[r].idx = 2
                      /\ req[r].writes = 1
                      /\ req[r].fetched = out.fetched
  /\ ~lastSet[DiscoveryPath].byOut
  /\ entries[DiscoveryPath].Body = out.resp.body
  /\ out.resp.header.ETag = Quoted(Sha256Hex(entries[DiscoveryPath].Body))

DocAnswered ==
  /\ FetchReturned \/ AnsweredAtOnce
  /\ out'.handler \in DocHandlers

C33_WritesOnlyOnSuccess ==
  [][ /\ (DocAnswered /\ out'.outcome # "upstream_fetch")
           => /\ entries' = entries
              /\ out'.writes = 0
      /\ (DocAnswered /\ out'.outcome = "upstream_fetch")
           => /\ out'.method = "GET"
              /\ out'.reads = 1
              /\ out'.fetches = 1
              /\ ~out'.fetchErr
              /\ ProcessBody(out'.fetched, config.PrettyPrintJSON).err = ""
              /\ out'.writes = 1
              /\ \A k \in DOMAIN entries :
                   k # out'.path => entries'[k] = entries[k]
      /\ \A k \in Keys : MissedAndFetches(k) => entries' = entries
      /\ (DocAnswered /\ out'.outcome = "serving_stale_cache")
           => /\ entries'[out'.path].exists
              /\ entries'[out'.path].ExpiresAt = entries[out'.path].ExpiresAt
              /\ Expired(out'.path)
                   => /\ now' > entries'[out'.path].ExpiresAt
                      /\ ~Get(entries', out'.path, now').found
      /\ \A k \in Keys :
           (Expired(k) /\ AnsweredAtOnce /\ out'.handler \in DocHandlers
            /\ out'.method = "GET" /\ out'.path = k)
             => out'.outcome = "panic"
    ]_vars

\* a stale serve has left the entry expired with the expiry it had, and
\* the next request for the key is waiting for the upstream
C33_Witness ==
  /\ out.handler \in DocHandlers
  /\ out.outcome = "serving_stale_cache"
  /\ out.writes = 0
  /\ Expired(out.path)
  /\ entries[out.path].ExpiresAt = lastSet[out.path].at + TTL
  /\ \E r \in Reqs : /\ req[r].pc = "fetching"
                      /\ req[r].handler \in DocHandlers
                      /\ req[r].path = out.path

(***************************************************************************)
(* C34  Probe population is not atomic: a probe fetches the discovery      *)
(* document first and stores it, with a new expiry, before it fetches the  *)
(* key set; it stops at the first failure.  When the discovery step fails  *)
(* the probe answers 503 with nothing fetched for the key set and no entry *)
(* changed; when the key set step fails it answers 503 and the discovery   *)
(* entry it has stored stays.                                              *)
(***************************************************************************)
\* the probe in slot r, which waits for the document of paths[i], goes on
\* in this step
ProbeStep(r, i) ==
  /\ req[r].pc = "fetching"
  /\ req[r].handler \in ProbeHandlers
  /\ req[r].idx = i
  /\ req'[r] # req[r]

C34_ProbeNotAtomic ==
  [][ \A r \in Reqs :
        /\ (req[r].pc = "idle" /\ req'[r].pc = "fetching"
            /\ req'[r].handler \in ProbeHandlers)
             => /\ req'[r].idx = 1
                /\ req'[r].path = DiscoveryPath
                /\ entries' = entries
        /\ (ProbeStep(r, 1) /\ req'[r].pc = "fetching")
             => /\ req'[r].idx = 2
                /\ req'[r].path = JWKSPath
                /\ req'[r].writes = 1
                /\ entries'[DiscoveryPath] =
                     CacheEntry(ProcessBody(req'[r].fetched,
                                            config.PrettyPrintJSON).bytes,
                                now + TTL)
                /\ \A k \in DOMAIN entries :
                     k # DiscoveryPath => entries'[k] = entries[k]
        /\ (ProbeStep(r, 1) /\ req'[r].pc = "idle")
             => /\ out'.resp.status = 503
                /\ out'.path = DiscoveryPath
                /\ out'.fetches = 1
                /\ out'.writes = 0
                /\ entries' = entries
                /\ lastSet'[JWKSPath].called = lastSet[JWKSPath].called
                /\ lastSet'[JWKSPath].at = lastSet[JWKSPath].at
        /\ (ProbeStep(r, 2) /\ out'.outcome = "probe_failed")
             => /\ out'.resp.status = 503
                /\ out'.path = JWKSPath
                /\ out'.writes = 1
                /\ entries' = entries
                /\ entries'[DiscoveryPath].exists
                /\ lastSet'[DiscoveryPath].called
    ]_vars

\* a probe has answered 503 because the key set step failed; the discovery
\* entry it stored, after time had passed, is in the cache with its new
\* expiry, and the key set has no entry
C34_Witness ==
  /\ out.handler \in ProbeHandlers
  /\ out.resp.status = 503
  /\ out.idx = 2
  /\ out.writes = 1
  /\ lastSet[DiscoveryPath].called
  /\ lastSet[DiscoveryPath].at > 0
  /\ entries[DiscoveryPath].ExpiresAt = lastSet[DiscoveryPath].at + TTL
  /\ TTL > 0
  /\ ~entries[JWKSPath].exists

(***************************************************************************)
(* C35  Stale lookup sees concurrent writes: a request whose fetch failed  *)
(* answers from the map as it is when its GetStale reads it, not as it was *)
(* at its miss: it answers 200 with the body the key holds at that moment, *)
(* also when the key had no entry at the miss and another request or a     *)
(* probe has stored one since, and 502 only when the key has no entry at   *)
(* that moment.                                                            *)
(***************************************************************************)
\* goroutine t returns from GetStale in this step
StaleReturns(t) ==
  /\ th[t].pc = "read"
  /\ th[t].op = "GetStale"
  /\ th'[t] # th[t]

C35_StaleSeesWrites ==
  [][ \A t \in Threads :
        StaleReturns(t) =>
          /\ th'[t].pc = "respond"
          /\ IF entries[KeyOf(th[t])].exists
             THEN /\ th'[t].op = "serving_stale_cache"
                  /\ ResponseOf(th'[t], "HandleJWKS").status = 200
                  /\ ResponseOf(th'[t], "HandleJWKS").body
                       = entries[KeyOf(th[t])].Body
             ELSE /\ th'[t].op = "upstream_error"
                  /\ ResponseOf(th'[t], "HandleJWKS").status = 502
    ]_vars

\* a request that missed on a key without an entry and whose fetch failed
\* is about to answer 200 with the entry that has been stored since
C35_Witness ==
  \E t \in Threads :
    /\ th[t].pc = "respond"
    /\ th[t].in = "handleCachedEndpoint"
    /\ th[t].op = "serving_stale_cache"
    /\ ~th[t].entry.exists
    /\ entries[SharedKey].exists
    /\ th[t].body = entries[SharedKey].Body
    /\ ResponseOf(th[t], "HandleJWKS").status = 200

(***************************************************************************)
(* C36  Response integrity: in every 200 document response the ETag is the *)
(* fingerprint of exactly the bytes sent in that response, whatever other  *)
(* requests store for the key between the moment the handler obtained the  *)
(* bytes and the moment it writes them.                                    *)
(***************************************************************************)
C36_TagMatchesBody ==
  \A t \in Threads :
    th[t].pc = "respond" =>
      \A handler \in HandlersOf(th[t]) :
        LET resp == ResponseOf(th[t], handler) IN
        (handler \in DocHandlers /\ resp.status = 200)
          => /\ resp.header.ETag = <<"\"">> \o Sha256Hex(resp.body) \o <<"\"">>
             /\ resp.body = th[t].body

\* a request is about to write a 200 with bytes that the key no longer
\* holds, another request having stored other bytes in between
C36_Witness ==
  \E t \in Threads :
    /\ th[t].pc = "respond"
    /\ th[t].op \in {"cache_hit", "upstream_fetch"}
    /\ entries[SharedKey].exists
    /\ entries[SharedKey].Body # th[t].body
    /\ ResponseOf(th[t], "HandleJWKS").status = 200
    /\ ResponseOf(th[t], "HandleJWKS").header.ETag
         = <<"\"">> \o Sha256Hex(th[t].body) \o <<"\"">>

(***************************************************************************)
(* C37  A successful probe refreshes both keys: a probe answers 200 only   *)
(* after it has stored an entry for each key, the discovery entry when its *)
(* first fetch returned and the key set entry with the answer, each with   *)
(* an expiry one TTL after its store; stores never go back in time, so     *)
(* both keys then hold entries stored during the probe or later, and a     *)
(* document GET for either key up to that expiry is a fresh hit that calls *)
(* no Fetch.                                                               *)
(***************************************************************************)
\* the probe in out answered 200, and this is the latest thing a request
\* has done
ProbeSucceeded == out.pc = "done" /\ out.outcome = "probe_ok"

C37_ProbeRefreshes ==
  /\ [](/\ \A r \in Reqs :
             (req[r].pc = "fetching" /\ req[r].handler \in ProbeHandlers
              /\ req[r].idx = 2)
               => /\ req[r].writes = 1
                  /\ lastSet[DiscoveryPath].called
        /\ \A k \in Keys :
             lastSet[k].called
               => /\ entries[k].exists
                  /\ entries[k].ExpiresAt = lastSet[k].at + TTL
                  /\ lastSet[k].at <= now)
  /\ [][ /\ \A k \in Keys :
              /\ lastSet'[k].at >= lastSet[k].at
              /\ lastSet[k].called => lastSet'[k].called
         /\ \A r \in Reqs :
              (ProbeStep(r, 1) /\ req'[r].pc = "fetching")
                => /\ lastSet'[DiscoveryPath].called
                   /\ lastSet'[DiscoveryPath].at = now
         /\ (FetchReturned /\ out'.outcome = "probe_ok")
              => /\ out'.writes = Len(paths)
                 /\ out'.resp.status = 200
                 /\ lastSet'[JWKSPath].called
                 /\ lastSet'[JWKSPath].at = now
                 /\ \A k \in Keys :
                      /\ entries'[k].exists
                      /\ entries'[k].ExpiresAt = lastSet'[k].at + TTL
         /\ \A k \in Keys :
              (ProbeSucceeded /\ now <= entries[k].ExpiresAt)
                => /\ ~MissedAndFetches(k)
                   /\ (AnsweredAtOnce /\ out'.handler \in DocHandlers
                       /\ out'.method = "GET" /\ out'.path = k)
                        => /\ out'.outcome = "cache_hit"
                           /\ out'.resp.status = 200
                           /\ out'.resp.body = entries[k].Body
                           /\ out'.fetches = 0 ]_vars

\* a probe has answered 200 after time passed between its two stores; the
\* clock is at the expiry of the discovery entry, which is still fresh,
\* and the key set entry expires later
C37_Witness ==
  /\ ProbeSucceeded
  /\ TTL > 0
  /\ lastSet[DiscoveryPath].at < lastSet[JWKSPath].at
  /\ now = entries[DiscoveryPath].ExpiresAt
  /\ \A k \in Keys : Get(entries, k, now).found
  /\ entries[JWKSPath].ExpiresAt > now

(***************************************************************************)
(* C38  Only status 200 is a successful fetch: Fetch returns bytes only    *)
(* for a response with status exactly 200; a response with any other       *)
(* status, other 2xx codes included, is a failed fetch, after which        *)
(* nothing is stored, a document request serves the stale entry or         *)
(* answers 502, and a probe answers 503.                                   *)
(***************************************************************************)
\* statuses an API server or a proxy in front of it can answer with
OtherStatuses == {201, 204, 206, 301, 401, 403, 404, 500, 503}

\* a response with status code and a body that is a good document
Answer(code) ==
  [transportErr |-> FALSE, StatusCode |-> code, Body |-> DocJWKS,
   readErr |-> FALSE]

C38_Only200 ==
  /\ [](/\ \A code \in OtherStatuses :
             Fetch(Answer(code)) = [err |-> TRUE, body |-> <<>>]
        /\ Fetch(Answer(200)) = [err |-> FALSE, body |-> DocJWKS])
  /\ [][ /\ (FetchReturned /\ ~out'.fetchErr)
              => /\ out'.upstream.StatusCode = 200
                 /\ ~out'.upstream.transportErr
         /\ \A r \in Reqs :
              (req[r].pc = "fetching" /\ req'[r].pc = "fetching"
               /\ req'[r] # req[r])
                => req'[r].upstream.StatusCode = 200
         /\ (FetchReturned /\ ~out'.upstream.transportErr
             /\ out'.upstream.StatusCode # 200)
              => /\ out'.fetchErr
                 /\ out'.fetched = <<>>
                 /\ entries' = entries
                 /\ \A k \in Keys : ~lastSet'[k].byOut
                 /\ out'.handler \in DocHandlers
                      => /\ out'.writes = 0
                         /\ IF entries[out'.path].exists
                            THEN /\ out'.resp.status = 200
                                 /\ out'.resp.body = entries[out'.path].Body
                            ELSE out'.resp.status = 502
                 /\ out'.handler \in ProbeHandlers
                      => /\ out'.resp.status = 503
                         /\ out'.writes = out'.idx - 1 ]_vars

\* the upstream answered a document request with 204, and the request
\* served the expired entry
C38_Witness ==
  /\ out.handler \in DocHandlers
  /\ ~out.upstream.transportErr
  /\ out.upstream.StatusCode = 204
  /\ out.fetchErr
  /\ out.outcome = "serving_stale_cache"
  /\ out.resp.status = 200
  /\ out.resp.body = entries[out.path].Body
  /\ Expired(out.path)

(***************************************************************************)
(* C39  Expiry is monotone per key: Set reads the clock while it holds the *)
(* write lock, so the ExpiresAt of the successive entries of a key never   *)
(* decreases, and no entry's ExpiresAt is more than one TTL after the      *)
(* current time.                                                           *)
(***************************************************************************)
C39_ExpiryMonotone ==
  /\ [](\A k \in DOMAIN entries :
          entries[k].exists => entries[k].ExpiresAt <= now + TTL)
  /\ [][ /\ \A k \in DOMAIN entries :
              entries[k].exists
                => /\ entries'[k].exists
                   /\ entries'[k].ExpiresAt >= entries[k].ExpiresAt
         /\ \A t \in Threads :
              (th[t].pc = "write" /\ th'[t].pc = "unlock")
                => /\ mu.writer = t
                   /\ mu'.writer = t
                   /\ entries'[SharedKey].ExpiresAt = now + TTL ]_vars

\* the key has had entries with different expiries, the one it holds is
\* the latest of them, and a further Set holds the lock and has not yet
\* written
C39_Witness ==
  /\ entries[SharedKey].exists
  /\ \E e \in written : e.ExpiresAt < entries[SharedKey].ExpiresAt
  /\ \A e \in written : e.ExpiresAt <= entries[SharedKey].ExpiresAt
  /\ now > entries[SharedKey].ExpiresAt - TTL
  /\ \E t \in Threads : th[t].pc = "write" /\ mu.writer = t

====
